---- MODULE Spec2Model ----
(***************************************************************************)
(* Media resolution engine of the conversation exporter:                   *)
(*   MediaDownloader.downloadAllMedia / downloadMedia, MediaFetcher.*,      *)
(*   MediaUrlGenerator.*, FileUtils.* and the background message listener.  *)
(*                                                                         *)
(* A JavaScript string is a sequence of tokens (TLA+ strings); the tokens   *)
(* are the literal pieces the code concatenates and searches for, so that   *)
(* s.includes(x), s.startsWith(x), s.replace(x,'') and s.split(x)[1] are    *)
(* computed on the sequence.  The empty sequence is the empty string, and   *)
(* also stands for null/undefined (all three are falsy in the code).        *)
(***************************************************************************)
EXTENDS Integers, Sequences, FiniteSets, TLC

(***************************************************************************)
(* Bounds                                                                  *)
(***************************************************************************)
\* number of configured sediment regions that are modelled
NumRegions == 1
\* longest list of media references of one batch
MaxRefs == 2
\* responses of the environment that differ from the default (unreachable
\* host, refused download) during one run
MaxLive == 1
\* calls of getAccessToken in one run of the credential cache
MaxCalls == 2
\* last reading of the clock, in minutes, and the minutes between two readings
MaxClock == 15
TickMinutes == 5

(***************************************************************************)
(* Strings                                                                 *)
(***************************************************************************)
NULL == <<>>

SED == "sediment://"
FSV == "file-service://"
FU == "file_"
FD == "file-"
HEX32 == "0a1b2c3d4e5f60718293a4b5c6d7e8f9"
UUID == "0a1b2c3d-4e5f-6071-8293-a4b5c6d7e8f9"

\* tok contains needle as a substring (the pairs that occur in the program)
TokHas(tok, needle) ==
  \/ tok = needle
  \/ /\ needle = "file-"
     /\ tok \in {FSV, "/file-"}
  \/ /\ needle = "http"
     /\ tok \in {"https://", "http://"}
  \/ /\ needle = "oaiusercontent.com"
     /\ tok \in {"files.oaiusercontent.com", ".oaiusercontent.com"}
  \/ /\ needle = "oaiusercontent"
     /\ tok \in {"files.oaiusercontent.com", ".oaiusercontent.com"}
  \/ /\ needle = "://"
     /\ tok \in {SED, FSV, "https://", "http://"}
  \/ /\ needle = "-"
     /\ tok \in {FD, FSV, UUID, "/file-"}
  \/ /\ needle = "/raw"
     /\ tok \in {"/raw", "/raw?"}
  \/ /\ needle = ".jpg"
     /\ tok \in {".jpg"}

Includes(s, needle) == \E k \in 1..Len(s) : TokHas(s[k], needle)

\* s.includes(a + b) for two literals that are tokens of their own
IncludesPair(s, a, b) == \E k \in 1..(Len(s) - 1) : s[k] = a /\ s[k + 1] = b

StartsWith(s, needle) ==
  /\ Len(s) > 0
  /\ \/ s[1] = needle
     \/ needle = "http" /\ s[1] \in {"https://", "http://"}

\* index of the first token equal to tok, 0 when there is none
IndexOfTok(s, tok) ==
  IF \E k \in 1..Len(s) : s[k] = tok
    THEN CHOOSE k \in 1..Len(s) : s[k] = tok /\ \A j \in 1..(k - 1) : s[j] # tok
    ELSE 0

\* s.replace(tok, '')
RemoveFirst(s, tok) ==
  LET k == IndexOfTok(s, tok)
  IN IF k = 0 THEN s ELSE SubSeq(s, 1, k - 1) \o SubSeq(s, k + 1, Len(s))

\* s.split(tok)[1] for a string holding tok (undefined, here NULL, otherwise)
SplitSecond(s, tok) ==
  LET k == IndexOfTok(s, tok)
      rest == SubSeq(s, k + 1, Len(s))
      k2 == IndexOfTok(rest, tok)
  IN IF k = 0 THEN NULL
     ELSE IF k2 = 0 THEN rest ELSE SubSeq(rest, 1, k2 - 1)

\* s.replace(/([0-9a-f]{8})([0-9a-f]{4})...([0-9a-f]{12})/, '$1-$2-$3-$4-$5')
HyphenateUuid(s) == [k \in 1..Len(s) |->
                       IF s[k] = HEX32 /\ IndexOfTok(s, HEX32) = k THEN UUID ELSE s[k]]

SeqIncludes(list, x) == \E k \in 1..Len(list) : list[k] = x

(***************************************************************************)
(* ExportConfig                                                            *)
(***************************************************************************)
sedimentRegions == <<"westus2", "westus3", "centralus", "eastus", "eastus2",
                     "northcentralus", "southcentralus", "northeurope", "westeurope",
                     "australiaeast", "southeastasia", "eastasia", "centralindia">>

Regions == SubSeq(sedimentRegions, 1, NumRegions)

domains == {"chat.openai.com", "chatgpt.com"}

(***************************************************************************)
(* MediaUrlGenerator.generateAlternativeUrls                               *)
(***************************************************************************)
SedimentUrl(region, uuid) ==
  <<"https://", "sdmntpr", region, ".oaiusercontent.com", "/files/">> \o uuid \o <<"/raw">>

baseUrl(domain) == <<"https://", domain>>

FilesCdn(path, id) == <<"https://", "files.oaiusercontent.com", path>> \o id
StaticCdn(path, id) == <<"https://", "cdn.oaistatic.com", path>> \o id

generateAlternativeUrls(fileId, domain) ==
  LET isDalleImageNew == IncludesPair(fileId, SED, FU) \/ StartsWith(fileId, FU)
      isDalleImageOld == Includes(fileId, SED) /\ ~IncludesPair(fileId, SED, FU)
      isUserUpload == Includes(fileId, FSV) \/ Includes(fileId, "file-")
  IN IF isDalleImageNew THEN
       LET cleanId == IF Includes(fileId, SED) THEN SplitSecond(fileId, SED) ELSE fileId
           hasFilePrefix == StartsWith(cleanId, FU)
           withoutFilePrefix == IF hasFilePrefix THEN Tail(cleanId) ELSE cleanId
           withFilePrefix == IF hasFilePrefix THEN cleanId ELSE <<FU>> \o cleanId
           fileUuid == IF Includes(withoutFilePrefix, "-") THEN withoutFilePrefix
                       ELSE HyphenateUuid(withoutFilePrefix)
       IN [k \in 1..Len(Regions) |-> SedimentUrl(Regions[k], fileUuid)] \o
          << baseUrl(domain) \o <<"/backend-api/sediment/content/">> \o withFilePrefix,
             baseUrl(domain) \o <<"/backend-api/sediment/content/">> \o withoutFilePrefix,
             baseUrl(domain) \o <<"/backend-api/sediment/files/">> \o withFilePrefix,
             baseUrl(domain) \o <<"/backend-api/sediment/files/">> \o withoutFilePrefix,
             FilesCdn("/file/", fileUuid),
             FilesCdn("/file/", withFilePrefix) >>
     ELSE IF isDalleImageOld THEN
       LET cleanId == SplitSecond(fileId, SED)
       IN << baseUrl(domain) \o <<"/backend-api/sediment/content/">> \o cleanId,
             baseUrl(domain) \o <<"/backend-api/sediment/files/">> \o cleanId,
             FilesCdn("/file/", cleanId),
             StaticCdn("/images/", cleanId \o <<".png">>),
             baseUrl(domain) \o <<"/backend-api/images/generations/">> \o cleanId,
             baseUrl(domain) \o <<"/backend-api/images/">> \o cleanId \o <<"/content">> >>
     ELSE IF isUserUpload THEN
       LET cleanId == IF Includes(fileId, FSV) THEN SplitSecond(fileId, FSV) ELSE fileId
       IN << baseUrl(domain) \o <<"/backend-api/files/content/">> \o cleanId \o <<"?format=binary">>,
             baseUrl(domain) \o <<"/backend-api/files/download/content/">> \o cleanId,
             FilesCdn("/file/", cleanId),
             FilesCdn("/file-", cleanId) >>
     ELSE
       LET cleanId == IF Includes(fileId, "://")
                        THEN SubSeq(fileId, 2, Len(fileId)) ELSE fileId
       IN << baseUrl(domain) \o <<"/backend-api/files/content/">> \o cleanId \o <<"?format=binary">>,
             FilesCdn("/file/", cleanId) >>

(***************************************************************************)
(* JSON values.  A node is a string, an object (its members in insertion   *)
(* order; an array is an object keyed by its indices) or another literal;  *)
(* NOJSON is undefined / a failed parse.                                   *)
(***************************************************************************)
Str(s) == [t |-> "str", s |-> s, kids |-> <<>>]
Obj(kids) == [t |-> "obj", s |-> <<>>, kids |-> kids]
NOJSON == [t |-> "none", s |-> <<>>, kids |-> <<>>]
KV(k, v) == [k |-> k, v |-> v]

\* obj[key]
Get(node, key) ==
  IF node.t = "obj" /\ \E i \in 1..Len(node.kids) : node.kids[i].k = key
    THEN node.kids[CHOOSE i \in 1..Len(node.kids) :
                     node.kids[i].k = key /\ \A j \in 1..(i - 1) : node.kids[j].k # key].v
    ELSE NOJSON

Truthy(node) == node.t = "obj" \/ (node.t = "str" /\ node.s # <<>>)

\* the value handed back as "the URL"; a non-string value is handed back as it is
UrlOf(node) == IF node.t = "str" THEN node.s ELSE <<"[object Object]">>

KeyHas(key, needle) ==
  \/ needle = "url" /\ key \in {"url", "download_url", "file_url", "signed_url",
                                 "direct_url", "content_url", "blob_url", "presigned_url",
                                 "storage_url", "image_url"}
  \/ needle = "link" /\ key \in {"link", "download_link"}

IsHttpUrl(s) == Len(s) > 0 /\ s[1] \in {"http://", "https://"}

\* the string members of an object and of the objects below it, in document
\* order, each with the depth of the object that holds it and its key
RECURSIVE StringsOfKids(_, _)
StringsOfKids(kids, depth) ==
  IF kids = <<>> THEN <<>>
  ELSE LET v == Head(kids).v
       IN (IF v.t = "str" THEN <<[s |-> v.s, depth |-> depth, key |-> Head(kids).k]>>
           ELSE IF v.t = "obj" THEN StringsOfKids(v.kids, depth + 1)
           ELSE <<>>)
          \o StringsOfKids(Tail(kids), depth)

\* first element of a sequence of strings-with-depth satisfying P, NULL if none
FirstWhere(list, P(_)) ==
  IF \E k \in 1..Len(list) : P(list[k])
    THEN list[CHOOSE k \in 1..Len(list) : P(list[k]) /\ \A j \in 1..(k - 1) : ~P(list[j])].s
    ELSE NULL

\* the sediment regular expression of findSedimentUrls / findSedimentUrlsInJson:
\* https?://sdmntpr[a-z0-9]*.oaiusercontent.com/files/<hex id>/raw?<query>,
\* not followed by an icon or thumbnail path
SedimentRegexMatches(s) ==
  /\ Len(s) >= 9
  /\ s[1] \in {"http://", "https://"}
  /\ s[2] = "sdmntpr"
  /\ SeqIncludes(sedimentRegions, s[3])
  /\ s[4] = ".oaiusercontent.com"
  /\ s[5] = "/files/"
  /\ s[6] \in {UUID, HEX32}
  /\ s[7] = "/raw"
  /\ s[8] = "?"
  /\ \A k \in 9..Len(s) : s[k] \notin {"/drvs/icon/", "/thumbnail/", "_thumb.", "_icon."}

\* findSedimentUrls(obj)[0]: the regular expression runs over the whole
\* stringified value, the member scan stops below depth 10
FirstSedimentUrl(jsonData) ==
  LET all == IF jsonData.t = "obj" THEN StringsOfKids(jsonData.kids, 0) ELSE <<>>
      byRegex(e) == SedimentRegexMatches(e.s)
      byScan(e) ==
        /\ e.depth <= 10
        /\ \/ /\ Includes(e.s, "sdmntpr")
              /\ Includes(e.s, "oaiusercontent.com")
              /\ Includes(e.s, "/files/")
              /\ StartsWith(e.s, "http")
           \/ /\ Includes(e.s, "oaiusercontent.com")
              /\ Includes(e.s, "/files/")
              /\ IncludesPair(e.s, "/raw", "?")
              /\ Includes(e.s, "sig=")
  IN IF FirstWhere(all, byRegex) # NULL THEN FirstWhere(all, byRegex)
     ELSE FirstWhere(all, byScan)

\* searchForUrlInObject(obj, depth): depth-first, in key order, giving up
\* below depth 5
RECURSIVE searchForUrlInKids(_, _)
searchForUrlInKids(kids, depth) ==
  IF depth > 5 \/ kids = <<>> THEN NULL
  ELSE LET key == Head(kids).k
           value == Head(kids).v
           here ==
             IF value.t = "str" THEN
               IF /\ \/ Includes(value.s, "files.oaiusercontent.com")
                     \/ Includes(value.s, "cdn.oaistatic.com")
                     \/ KeyHas(key, "url")
                     \/ KeyHas(key, "link")
                  /\ IsHttpUrl(value.s)
                 THEN value.s ELSE NULL
             ELSE IF value.t = "obj" THEN searchForUrlInKids(value.kids, depth + 1)
             ELSE NULL
       IN IF here # NULL THEN here ELSE searchForUrlInKids(Tail(kids), depth)

searchForUrlInObject(obj) ==
  IF obj.t = "obj" THEN searchForUrlInKids(obj.kids, 0) ELSE NULL

\* first truthy value among the given paths (a path is a sequence of keys)
RECURSIVE GetPath(_, _)
GetPath(node, path) ==
  IF path = <<>> THEN node ELSE GetPath(Get(node, Head(path)), Tail(path))

\* the property paths parseJsonForFileUrl tests, in its order: top-level
\* fields, then data.*, data.file.*, data.result.*, file.*, result.*, then
\* the remaining top-level fields
UrlFieldPaths ==
  << <<"download_url">>, <<"url">>, <<"file_url">>, <<"file_uri">>, <<"path">>,
     <<"signed_url">>, <<"direct_url">>, <<"download_link">>, <<"content_url">>,
     <<"data", "download_url">>, <<"data", "url">>, <<"data", "signed_url">>,
     <<"data", "direct_url">>,
     <<"data", "file", "url">>, <<"data", "file", "download_url">>,
     <<"data", "file", "signed_url">>,
     <<"data", "result", "url">>, <<"data", "result", "download_url">>,
     <<"data", "result", "signed_url">>,
     <<"file", "url">>, <<"file", "download_url">>, <<"file", "signed_url">>,
     <<"result", "url">>, <<"result", "download_url">>, <<"result", "signed_url">>,
     <<"blob_url">>, <<"presigned_url">>, <<"storage_url">> >>

parseJsonForFileUrl(jsonData) ==
  LET hit(k) == Truthy(GetPath(jsonData, UrlFieldPaths[k]))
      rootStrings == IF jsonData.t = "obj"
                       THEN SelectSeq(StringsOfKids(jsonData.kids, 0), LAMBDA e : e.depth = 0)
                       ELSE <<>>
      rootHit(e) == /\ \/ Includes(e.s, "files.oaiusercontent.com")
                       \/ Includes(e.s, "cdn.oaistatic.com")
                    /\ IsHttpUrl(e.s)
  IN IF FirstSedimentUrl(jsonData) # NULL THEN FirstSedimentUrl(jsonData)
     ELSE IF \E k \in 1..Len(UrlFieldPaths) : hit(k)
       THEN UrlOf(GetPath(jsonData, UrlFieldPaths[
              CHOOSE k \in 1..Len(UrlFieldPaths) : hit(k) /\ \A j \in 1..(k - 1) : ~hit(j)]))
     ELSE IF FirstWhere(rootStrings, rootHit) # NULL THEN FirstWhere(rootStrings, rootHit)
     ELSE searchForUrlInObject(jsonData)

(***************************************************************************)
(* FileUtils: byte signatures.  Bytes are sequences of 0..255; At(b, i) is *)
(* b[i] of the code (0-based), -1 where the code reads undefined.          *)
(***************************************************************************)
At(b, i) == IF i + 1 <= Len(b) THEN b[i + 1] ELSE -1

Slice(b, n) == SubSeq(b, 1, IF Len(b) < n THEN Len(b) ELSE n)

detectFileTypeFromBytes(bytes) ==
  LET ws == {32, 9, 10, 13}
      firstNonWhitespace ==
        IF \E k \in 1..Len(bytes) : bytes[k] \notin ws
          THEN (CHOOSE k \in 1..Len(bytes) :
                  bytes[k] \notin ws /\ \A j \in 1..(k - 1) : bytes[j] \in ws) - 1
          ELSE -1
  IN IF Len(bytes) < 4 THEN NULL
     ELSE IF At(bytes, 0) = 255 /\ At(bytes, 1) = 216 /\ At(bytes, 2) = 255 THEN <<"image/jpeg">>
     ELSE IF At(bytes, 0) = 137 /\ At(bytes, 1) = 80 /\ At(bytes, 2) = 78 /\ At(bytes, 3) = 71
       THEN <<"image/png">>
     ELSE IF At(bytes, 0) = 71 /\ At(bytes, 1) = 73 /\ At(bytes, 2) = 70 /\ At(bytes, 3) = 56
       THEN <<"image/gif">>
     ELSE IF /\ At(bytes, 0) = 82 /\ At(bytes, 1) = 73 /\ At(bytes, 2) = 70 /\ At(bytes, 3) = 70
             /\ Len(bytes) >= 12
             /\ At(bytes, 8) = 87 /\ At(bytes, 9) = 69 /\ At(bytes, 10) = 66 /\ At(bytes, 11) = 80
       THEN <<"image/webp">>
     ELSE IF At(bytes, 0) = 37 /\ At(bytes, 1) = 80 /\ At(bytes, 2) = 68 /\ At(bytes, 3) = 70
       THEN <<"application/pdf">>
     ELSE IF \/ At(bytes, 0) = 73 /\ At(bytes, 1) = 68 /\ At(bytes, 2) = 51
             \/ At(bytes, 0) = 255 /\ At(bytes, 1) \in {251, 243, 242}
       THEN <<"audio/mpeg">>
     ELSE IF /\ Len(bytes) >= 8
             /\ At(bytes, 4) = 102 /\ At(bytes, 5) = 116 /\ At(bytes, 6) = 121 /\ At(bytes, 7) = 112
       THEN <<"video/mp4">>
     ELSE IF At(bytes, 0) = 26 /\ At(bytes, 1) = 69 /\ At(bytes, 2) = 223 /\ At(bytes, 3) = 163
       THEN <<"video/webm">>
     ELSE IF At(bytes, 0) = 80 /\ At(bytes, 1) = 75 /\ At(bytes, 2) = 3 /\ At(bytes, 3) = 4
       THEN <<"application/zip">>
     ELSE IF firstNonWhitespace # -1 /\ At(bytes, firstNonWhitespace) \in {123, 91}
       THEN <<"application/json">>
     ELSE NULL

\* blob.type.includes('image/') || 'audio/' || 'video/' || 'application/pdf'
IsMediaMime(type) ==
  type \in { <<"image/png">>, <<"image/jpeg">>, <<"image/gif">>, <<"image/webp">>,
             <<"audio/mpeg">>, <<"video/mp4">>, <<"video/webm">>, <<"application/pdf">> }

isBinaryBlob(type, content) ==
  LET bytes == Slice(content, 32)
      isText(b) == (b >= 32 /\ b <= 126) \/ b \in {9, 10, 13}
      textChars == Cardinality({k \in 1..Len(bytes) : isText(bytes[k])})
      binaryChars == Len(bytes) - textChars
  IN IF type # NULL /\ IsMediaMime(type) THEN TRUE
     ELSE IF At(bytes, 0) = 255 /\ At(bytes, 1) = 216 /\ At(bytes, 2) = 255 THEN TRUE
     ELSE IF At(bytes, 0) = 137 /\ At(bytes, 1) = 80 /\ At(bytes, 2) = 78 /\ At(bytes, 3) = 71
       THEN TRUE
     ELSE IF At(bytes, 0) = 71 /\ At(bytes, 1) = 73 /\ At(bytes, 2) = 70 /\ At(bytes, 3) = 56
       THEN TRUE
     ELSE IF At(bytes, 0) = 123 THEN FALSE
     ELSE IF At(bytes, 0) = 91 THEN FALSE
     \* textChars / (textChars + binaryChars) < 0.9; 0/0 is NaN, which compares false
     ELSE 10 * textChars < 9 * (textChars + binaryChars)


(***************************************************************************)
(* Media references, results and response fixtures                         *)
(***************************************************************************)
MediaRef(type, assetPointer, fileId, renderedUrl, customName, title) ==
  [type |-> type, assetPointer |-> assetPointer, fileId |-> fileId, canvasId |-> NULL,
   renderedUrl |-> renderedUrl, customName |-> customName, title |-> title,
   filename |-> NULL, format |-> NULL, mime_type |-> NULL]

\* a signed storage-mirror URL, as found in the page or in the conversation JSON
SasUrl(uuid, sig) ==
  <<"https://", "sdmntpr", "westus2", ".oaiusercontent.com", "/files/", uuid,
    "/raw", "?", "sig=", sig>>

\* an image element of the page that is not on a storage mirror
DomImageUrl == <<"https://", "files.oaiusercontent.com", "/file-", "k1", ".jpg">>

\* conversation-JSON reference of a generated image (extractMediaReferences, JSON scan)
RefSas == MediaRef("image", <<SED, UUID>>, <<UUID>>, SasUrl(UUID, "S0"), <<"dalle_", UUID>>, NULL)
\* image_asset_pointer part of a message (extractMediaReferences, node scan)
RefSediment == MediaRef("image", <<SED, FU, HEX32>>, <<FU, HEX32>>, NULL, NULL, NULL)
\* user upload
RefUpload == MediaRef("file", <<FSV, FD, "XyZ">>, <<FSV, FD, "XyZ">>, NULL, NULL, NULL)
\* image found in the page only
RefDom == MediaRef("image", NULL, <<"img_", "k1">>, DomImageUrl, NULL, <<"A red fox">>)
\* a reference without any identifier
RefNoId == MediaRef("file", NULL, NULL, NULL, NULL, NULL)

RefPool == {RefSas, RefSediment, RefUpload, RefDom, RefNoId}

\* the signed form of a URL, as a JSON answer names it
Signed(url) == url \o <<"?", "sig=", "X1">>
IsSigned(url) == Includes(url, "sig=")
\* the URL a signed URL was made from
Unsigned(url) == IF IsSigned(url) THEN SubSeq(url, 1, IndexOfTok(url, "?") - 1) ELSE url

\* response bodies: leading bytes and the result of JSON.parse on the text
PngBytes == <<137, 80, 78, 71, 13, 10, 26, 10, 0, 0, 0, 13>>
\* {"status":"error","detail":"not found"}
JsonErrBytes == <<123, 34, 115, 116, 97, 116, 117, 115, 34, 58, 34, 101, 114, 114, 111, 114,
                  34, 44, 34, 100, 101, 116, 97, 105, 108, 34, 58, 34, 110, 111, 116, 32,
                  102, 111, 117, 110, 100, 34, 125>>
\* {"download_url":"https://...
JsonRedirBytes == <<123, 34, 100, 111, 119, 110, 108, 111, 97, 100, 95, 117, 114, 108, 34, 58>>
\* bytes without a known signature
BinBytes == <<0, 1, 2, 3, 200, 201, 202, 203, 0, 0, 0, 0>>
JpegBytes == <<255, 216, 255, 224, 0, 16, 74, 70, 73, 70, 0, 1>>
\* GIF89a
GifBytes == <<71, 73, 70, 56, 57, 97, 1, 0, 1, 0, 128, 0>>
\* Not Found
TextBytes == <<78, 111, 116, 32, 70, 111, 117, 110, 100>>

Bodies == {"png", "jpeg", "gif", "bin", "text", "jsonerr", "redirSigned", "redirBack",
           "redirOk"}

BodyBytes(body) ==
  CASE body = "png" -> PngBytes
    [] body = "jsonerr" -> JsonErrBytes
    [] body \in {"redirSigned", "redirBack", "redirOk"} -> JsonRedirBytes
    [] body = "bin" -> BinBytes
    [] body = "jpeg" -> JpegBytes
    [] body = "gif" -> GifBytes
    [] body = "text" -> TextBytes
    [] OTHER -> <<>>

\* JSON.parse(text) of the body answered to a request for url
BodyJson(body, url) ==
  CASE body = "jsonerr" -> Obj(<<KV("status", Str(<<"error">>)), KV("detail", Str(<<"not found">>))>>)
    [] body = "redirSigned" -> Obj(<<KV("download_url", Str(Signed(url)))>>)
    [] body = "redirBack" -> Obj(<<KV("status", Str(<<"success">>)),
                                  KV("data", Obj(<<KV("url", Str(Unsigned(url)))>>))>>)
    [] body = "redirOk" -> Obj(<<KV("status", Str(<<"success">>)),
                                KV("download_url", Str(Signed(url)))>>)
    [] OTHER -> NOJSON

NOBLOB == [type |-> NULL, body |-> "none"]

\* a response of fetch(): status 0 is a rejected fetch (network or CORS error)
NetErr == [status |-> 0, ctype |-> NULL, body |-> "none"]
Http(status) == [status |-> status, ctype |-> NULL, body |-> "none"]
Ok(ctype, body) == [status |-> 200, ctype |-> ctype, body |-> body]

\* the hosts the program sends requests to
Hosts == {"api", "files", "static", "mirror"}

HostOf(url) ==
  IF Len(url) < 2 THEN "none"
  ELSE CASE url[2] \in {"chat.openai.com", "chatgpt.com"} -> "api"
         [] url[2] = "files.oaiusercontent.com" -> "files"
         [] url[2] = "cdn.oaistatic.com" -> "static"
         [] url[2] = "sdmntpr" -> "mirror"
         [] OTHER -> "none"

\* how a host that answers at all treats a request
LiveBehaviours == {"public", "mislabels", "errors", "signs", "expires", "swaps"}
Behaviours == {"down"} \cup LiveBehaviours

\* the response of a host of the given behaviour to fetch(url), sent with
\* or without the Authorization header
Respond(behaviour, url, auth) ==
  CASE behaviour = "public" -> IF auth THEN Http(401) ELSE Ok(<<"image/png">>, "png")
    [] behaviour = "mislabels" -> Ok(<<"application/json">>, "png")
    [] behaviour = "errors" -> Ok(<<"image/png">>, "jsonerr")
    [] behaviour = "signs" -> IF IsSigned(url) THEN Ok(<<"image/png">>, "png")
                              ELSE Ok(<<"application/json">>, "redirSigned")
    [] behaviour = "expires" -> IF IsSigned(url) THEN Ok(<<"application/json">>, "jsonerr")
                                ELSE Ok(<<"application/json">>, "redirSigned")
    [] behaviour = "swaps" -> IF IsSigned(url) THEN Ok(<<"application/json">>, "redirBack")
                              ELSE Ok(<<"application/json">>, "redirSigned")
    [] behaviour = "delegates" -> IF IsSigned(url) THEN Ok(<<"image/png">>, "png")
                                  ELSE Ok(<<"application/json">>, "redirOk")
    [] behaviour = "forbids" -> [status |-> 403, ctype |-> <<"text/plain">>, body |-> "text"]
    [] OTHER -> NetErr

NoResult == [success |-> FALSE, method |-> "none", contentType |-> NULL, blob |-> NOBLOB,
             renderedUrl |-> NULL, error |-> [head |-> "none", reasons |-> <<>>],
             redirectUrl |-> NULL]

Success(method, contentType, blob, renderedUrl) ==
  [NoResult EXCEPT !.success = TRUE, !.method = method, !.contentType = contentType,
                   !.blob = blob, !.renderedUrl = renderedUrl]

Redirect(url) == [NoResult EXCEPT !.method = "redirect", !.redirectUrl = url]

Failure(head, reasons) == [NoResult EXCEPT !.error = [head |-> head, reasons |-> reasons]]

Reason(kind, url, why) == [kind |-> kind, url |-> url, why |-> why]

(***************************************************************************)
(* FileUtils: extension of the filename createSuitableFilename builds      *)
(***************************************************************************)
\* ExportConfig.fileTypes[mimeType].ext
fileTypes(mimeType) ==
  CASE mimeType = <<"image/png">> -> <<"png">>
    [] mimeType = <<"image/jpeg">> -> <<"jpg">>
    [] mimeType = <<"image/gif">> -> <<"gif">>
    [] mimeType = <<"image/webp">> -> <<"webp">>
    [] mimeType = <<"audio/mpeg">> -> <<"mp3">>
    [] mimeType = <<"video/mp4">> -> <<"mp4">>
    [] mimeType = <<"video/webm">> -> <<"webm">>
    [] mimeType = <<"application/json">> -> <<"json">>
    [] mimeType = <<"application/pdf">> -> <<"pdf">>
    [] mimeType = <<"application/zip">> -> <<"zip">>
    [] OTHER -> NULL

\* ExportConfig.defaultFileTypes[mediaType].ext
defaultFileTypes(mediaType) ==
  CASE mediaType = "image" -> <<"jpg">>
    [] mediaType = "audio" -> <<"mp3">>
    [] mediaType = "video" -> <<"mp4">>
    [] mediaType = "file" -> <<"bin">>
    [] mediaType = "canvas" -> <<"json">>
    [] OTHER -> NULL

\* a type outside the table: the subtype when it is 2..9 characters long
\* ('octet-stream' is not), else the fallback
getFileExtension(mimeType) ==
  IF fileTypes(mimeType) # NULL THEN fileTypes(mimeType) ELSE <<"bin">>

\* the part of a filename after its last dot, NULL without a dot
LastExtension(filename) ==
  IF \E k \in 1..Len(filename) : filename[k] = "."
    THEN SubSeq(filename,
                (CHOOSE k \in 1..Len(filename) :
                   filename[k] = "." /\ \A j \in (k + 1)..Len(filename) : filename[j] # ".") + 1,
                Len(filename))
    ELSE NULL

getAppropriateFileExtension(mediaType, mimeType, filename, format) ==
  IF format # NULL /\ Len(format) = 1 THEN format
  ELSE IF LastExtension(filename) # NULL /\ Len(LastExtension(filename)) = 1
    THEN LastExtension(filename)
  ELSE IF mediaType = "image"
    THEN IF mimeType = <<"image/jpeg">> THEN <<"jpg">> ELSE <<"png">>
  ELSE IF mimeType # NULL /\ mimeType # <<"application/octet-stream">>
          /\ mimeType # <<"application/json">>
    THEN getFileExtension(mimeType)
  ELSE IF defaultFileTypes(mediaType) # NULL THEN defaultFileTypes(mediaType)
  ELSE <<"bin">>

\* createSuitableFilename(mediaRef, contentType).split('.').pop()
FilenameExtension(mediaRef, contentType) ==
  IF mediaRef.assetPointer # NULL /\ Includes(mediaRef.assetPointer, SED) THEN <<"png">>
  ELSE getAppropriateFileExtension(mediaRef.type,
         IF contentType # NULL THEN contentType ELSE mediaRef.mime_type,
         mediaRef.filename, mediaRef.format)

\* title.replace(/[^a-zA-Z0-9_\-]/g, '_').toLowerCase()
UpperChars == <<"A", "B", "C", "D", "E", "F", "G", "H", "I", "J", "K", "L", "M",
                "N", "O", "P", "Q", "R", "S", "T", "U", "V", "W", "X", "Y", "Z">>
LowerChars == <<"a", "b", "c", "d", "e", "f", "g", "h", "i", "j", "k", "l", "m",
                "n", "o", "p", "q", "r", "s", "t", "u", "v", "w", "x", "y", "z">>
\* the characters of [a-zA-Z0-9_\-]
SafeChars ==
  {UpperChars[k] : k \in 1..26} \cup {LowerChars[k] : k \in 1..26}
    \cup {"0", "1", "2", "3", "4", "5", "6", "7", "8", "9", "_", "-"}

RECURSIVE ReplaceUnsafe(_)
\* part.replace(/[^a-zA-Z0-9_\-]/g, '_') for a part of a string
ReplaceUnsafe(part) ==
  IF Len(part) = 1 THEN (IF part \in SafeChars THEN part ELSE "_")
  ELSE LET half == Len(part) \div 2
       IN ReplaceUnsafe(SubSeq(part, 1, half)) \o ReplaceUnsafe(SubSeq(part, half + 1, Len(part)))

RECURSIVE ToLowerCase(_)
\* part.toLowerCase() for a part of a string
ToLowerCase(part) ==
  IF Len(part) = 1
    THEN (IF \E k \in 1..26 : UpperChars[k] = part
            THEN LowerChars[CHOOSE k \in 1..26 : UpperChars[k] = part]
          ELSE part)
  ELSE LET half == Len(part) \div 2
       IN ToLowerCase(SubSeq(part, 1, half)) \o ToLowerCase(SubSeq(part, half + 1, Len(part)))

\* s.replace(/[^a-zA-Z0-9_\-]/g, '_')
Sanitized(s) == [k \in 1..Len(s) |-> ReplaceUnsafe(s[k])]

SafeTitle(title) == [k \in 1..Len(title) |-> ToLowerCase(ReplaceUnsafe(title[k]))]

\* s.split('://').pop() when s holds '://', else s
AfterProtocol(s) ==
  IF Includes(s, "://")
    THEN SubSeq(s, (CHOOSE k \in 1..Len(s) :
                      TokHas(s[k], "://") /\ \A j \in (k + 1)..Len(s) : ~TokHas(s[j], "://")) + 1,
                Len(s))
    ELSE s

\* filename.substring(0, filename.lastIndexOf('.')) when it holds a dot
WithoutExtension(filename) ==
  IF LastExtension(filename) # NULL
    THEN SubSeq(filename, 1, Len(filename) - Len(LastExtension(filename)) - 1)
    ELSE filename

\* the first of the values that is not falsy (a || b || c)
FirstOf(values) ==
  IF \E k \in 1..Len(values) : values[k] # NULL
    THEN values[CHOOSE k \in 1..Len(values) :
                  values[k] # NULL /\ \A j \in 1..(k - 1) : values[j] = NULL]
    ELSE NULL

RECURSIVE Chars(_)
\* s.length: the characters of the parts of s
Chars(s) == IF s = <<>> THEN 0 ELSE Len(s[1]) + Chars(Tail(s))

RECURSIVE Substring(_, _)
\* s.substring(0, n)
Substring(s, n) ==
  IF s = <<>> \/ n <= 0 THEN <<>>
  ELSE IF Len(s[1]) <= n THEN <<s[1]>> \o Substring(Tail(s), n - Len(s[1]))
  ELSE <<SubSeq(s[1], 1, n)>>

\* 'Safe length for most filesystems' of the base name of a file that is
\* neither a generated image nor a PNG
maxBaseNameLength == 50

\* FileUtils.createSuitableFilename(mediaRef, contentType)
createSuitableFilename(mediaRef, contentType) ==
  LET ext == getAppropriateFileExtension(mediaRef.type,
               IF contentType # NULL THEN contentType ELSE mediaRef.mime_type,
               mediaRef.filename, mediaRef.format)
      anyId == FirstOf(<<mediaRef.fileId, mediaRef.assetPointer, mediaRef.canvasId>>)
      cleanId == AfterProtocol(anyId)
      safeTitle == SafeTitle(mediaRef.title)
  IN IF mediaRef.assetPointer # NULL /\ Includes(mediaRef.assetPointer, SED)
       THEN LET baseName ==
                  IF mediaRef.customName # NULL THEN mediaRef.customName
                  ELSE <<"dalle_">> \o FirstOf(<<mediaRef.fileId,
                                                 RemoveFirst(mediaRef.assetPointer, SED)>>)
            IN (IF Chars(baseName) > 200 THEN Substring(baseName, 200) ELSE baseName)
               \o <<".", "png">>
     ELSE IF ext = <<"png">>
       THEN LET pngId == AfterProtocol(IF anyId # NULL THEN anyId ELSE <<"unknown">>)
                originalFilename ==
                  FirstOf(<<WithoutExtension(mediaRef.filename), mediaRef.customName,
                            safeTitle, <<"image">> >>)
            IN (IF StartsWith(pngId, FD) \/ StartsWith(pngId, FU) THEN pngId
                ELSE <<FD>> \o pngId)
               \o <<"-">> \o Sanitized(originalFilename) \o <<".">> \o ext
     ELSE LET named == IF mediaRef.customName # NULL THEN mediaRef.customName
                       ELSE WithoutExtension(mediaRef.filename)
              baseName ==
                IF safeTitle # NULL /\ named # NULL THEN safeTitle \o <<"_">> \o named
                ELSE IF safeTitle # NULL THEN safeTitle
                ELSE IF named # NULL THEN named
                ELSE <<mediaRef.type, "_">> \o (IF anyId # NULL THEN cleanId ELSE <<"file">>)
              safeBaseName ==
                IF Chars(baseName) > maxBaseNameLength
                  THEN Substring(baseName, maxBaseNameLength)
                ELSE baseName
          IN safeBaseName \o <<".">> \o ext

(***************************************************************************)
(* MediaFetcher: what a fetcher makes of a response                        *)
(***************************************************************************)
\* the branch of fetchViaBackgroundScript / fetchDirectly for a body that
\* isBinaryBlob rejected: a redirect when the JSON names a URL, else null
NonBinaryVerdict(body, url) ==
  LET jsonData == BodyJson(body, url)
      redirectUrl == IF jsonData.t = "none" THEN NULL ELSE parseJsonForFileUrl(jsonData)
  IN IF redirectUrl # NULL THEN Redirect(redirectUrl) ELSE NoResult

\* fetchViaBackgroundScript on a background response carrying a data URL
\* of the given MIME type and body
BackgroundFetchVerdict(mimeType, body, url) ==
  LET bytes == BodyBytes(body)
      detectedType == detectFileTypeFromBytes(Slice(bytes, 12))
  IN IF ~isBinaryBlob(mimeType, bytes) THEN NonBinaryVerdict(body, url)
     ELSE IF detectedType # NULL
       THEN Success("background_fetch", detectedType,
                    [type |-> detectedType, body |-> body], NULL)
     ELSE Success("background_fetch", mimeType, [type |-> mimeType, body |-> body], NULL)

\* fetchDirectly on a 2xx response
DirectFetchVerdict(mediaRef, contentTypeHeader, body, url) ==
  LET bytes == BodyBytes(body)
      detectedType == detectFileTypeFromBytes(Slice(bytes, 12))
      first == IF detectedType # NULL THEN detectedType ELSE contentTypeHeader
      contentType ==
        IF first = NULL \/ first = <<"application/octet-stream">>
           \/ first = <<"application/json">>
          THEN CASE mediaRef.type = "image" -> <<"image/jpeg">>
                 [] mediaRef.type = "audio" -> <<"audio/mpeg">>
                 [] mediaRef.type = "video" -> <<"video/mp4">>
                 [] OTHER -> <<"application/octet-stream">>
          ELSE first
  IN IF ~isBinaryBlob(NULL, bytes) THEN NonBinaryVerdict(body, url)
     ELSE Success("direct_fetch", contentType, [type |-> contentType, body |-> body], NULL)

\* fetchFromSignedUrl on a 2xx response
SignedFetchVerdict(contentTypeHeader, body) ==
  LET contentType == IF contentTypeHeader # NULL THEN contentTypeHeader
                     ELSE <<"application/octet-stream">>
  IN Success("signed_url_fetch", contentType, [type |-> contentType, body |-> body], NULL)

fixContentTypeIssues(response, mediaRef) ==
  LET fileExt == FilenameExtension(mediaRef, response.contentType)
      isJpeg == response.contentType = <<"image/jpeg">>
      isPng == response.contentType = <<"image/png">>
      setType(r, t) == [r EXCEPT !.contentType = t, !.blob.type = t]
  IN IF response.blob = NOBLOB THEN response
     ELSE IF fileExt \in {<<"jpg">>, <<"jpeg">>} /\ ~isJpeg
       THEN setType(response, <<"image/jpeg">>)
     ELSE IF fileExt = <<"png">> /\ ~isPng THEN setType(response, <<"image/png">>)
     ELSE response


(***************************************************************************)
(* Background message listener (chrome.runtime.onMessage)                  *)
(***************************************************************************)
\* the request actions the switch of the listener answers
BackgroundHandles == {"heartbeat", "directDownload", "downloadMedia", "fetchBlobBase64"}

Unanswered == [answered |-> FALSE, success |-> FALSE, ctype |-> NULL, body |-> "none"]

(***************************************************************************)
(* State                                                                   *)
(***************************************************************************)
VARIABLES
  page,              \* window.location.hostname, chrome.downloads present, <img> sources
  conversationData,  \* the conversation payload: present or not, and its URL strings
  mediaReferences,   \* the list handed to downloadAllMedia
  results,           \* results of downloadAllMedia
  i,                 \* loop index of downloadAllMedia (1-based)
  pc,                \* the await at which the batch is suspended
  outcome,           \* of the downloadAllMedia call: running, returned or threw
  dm,                \* locals of the running downloadMedia call
  result,            \* value the last downloadMedia call returned
  log,               \* requests issued so far (history)
  env,               \* the behaviour of each host and of the downloads API
  probe,             \* an input put before a pure function on its own
  ex,                \* the export started by a click: handleExportClick and its callees
  authManager        \* AuthManager: sessionCache, the clock and the calls in progress

vars == <<page, conversationData, mediaReferences, results, i, pc, outcome, dm, result,
          log, env, probe, ex, authManager>>

\* no export was started
ExIdle == [pc |-> "idle", status |-> <<>>, authToken |-> NULL, session |-> "none",
           conversation |-> "none", payload |-> <<>>, attachments |-> <<>>, refs |-> <<>>,
           index |-> 0, usedFilenames |-> {}, media |-> <<>>, batch |-> 0, stage |-> <<>>,
           zip |-> {}, reqs |-> <<>>, saves |-> 0, archived |-> <<>>]

\* sessionCache after the module was loaded, no call in progress
AuthIdle == [token |-> NULL, expiry |-> 0, tokenEncryptionKey |-> <<>>, now |-> 0,
             calls |-> <<>>, clears |-> {}, seq |-> 0]

ConvPlain == [present |-> TRUE, strings |-> <<>>]
ConvUrls == [present |-> TRUE,
             strings |-> << SasUrl(UUID, "C1"),
                            <<"https://", "files.oaiusercontent.com", "/file-", "q7", "?",
                              "sig=", "C2">> >>]

ConvPool == {ConvPlain, ConvUrls}

\* the environments in which at most MaxLive hosts answer
Environments ==
  {e \in [hosts : [Hosts -> Behaviours], accepts : BOOLEAN] :
     Cardinality({h \in Hosts : e.hosts[h] # "down"}) <= MaxLive}

RECURSIVE SeqsUpTo(_, _)
\* the sequences over S of length at most n
SeqsUpTo(S, n) ==
  IF n = 0 THEN {<<>>}
  ELSE LET shorter == SeqsUpTo(S, n - 1)
       IN shorter \cup {Append(q, x) : q \in {r \in shorter : Len(r) = n - 1}, x \in S}

ProbeIdle == [stage |-> "idle", claimed |-> NULL, body |-> "none", verdict |-> NoResult]

DmIdle == [fileId |-> NULL, urlsToTry |-> <<>>, pos |-> 0, errorMessages |-> <<>>,
           jsonResponseUrls |-> <<>>, regionIdx |-> 0, infoUrls |-> <<>>, infoIdx |-> 0,
           signedIdx |-> 0, genCalls |-> 0, jsonUrls |-> <<>>, jsonIdx |-> 0]

Init ==
  /\ page \in [hostname : domains, hasDownloads : BOOLEAN, images : {<<>>}]
  /\ conversationData \in ConvPool
  /\ mediaReferences \in SeqsUpTo(RefPool, MaxRefs)
  /\ results = [total |-> 0, completed |-> 0, failed |-> 0, files |-> <<>>]
  /\ i = 0
  /\ pc = "start"
  /\ outcome = "running"
  /\ dm = DmIdle
  /\ result = NoResult
  /\ log = <<>>
  /\ env \in Environments
  /\ probe = ProbeIdle
  /\ ex = ExIdle
  /\ authManager = AuthIdle

Req(kind, url, auth, ok) == [ref |-> i, kind |-> kind, url |-> url, auth |-> auth, ok |-> ok,
                             body |-> "none"]

\* fetch(url, ...) as the host of url answers it; a URL without a host
\* makes fetch reject
FetchAnswer(url, auth) ==
  IF HostOf(url) \in Hosts THEN Respond(env.hosts[HostOf(url)], url, auth) ELSE NetErr

\* chrome.downloads.download reports no lastError
DispatchAnswer == env.accepts

\* what sendMessage({action: 'fetchMedia', url}) resolves to
FetchMediaAnswer(url) ==
  IF "fetchMedia" \in BackgroundHandles
    THEN LET r == FetchAnswer(url, TRUE)
         IN [answered |-> TRUE, success |-> r.status = 200, ctype |-> r.ctype, body |-> r.body]
    ELSE Unanswered

(***************************************************************************)
(* downloadAllMedia: scan, preparation, direct URLs of the payload         *)
(***************************************************************************)
\* findSedimentUrlsInJson(conversationData)
findSedimentUrlsInJson(conv) ==
  LET hits == SelectSeq(conv.strings,
                        LAMBDA u : SedimentRegexMatches(u) /\ Includes(u, "sig="))
  IN [k \in 1..Len(hits) |-> [uuid |-> hits[k][6], url |-> hits[k]]]

\* the forEach that maps signed URLs of the payload to sediment references
MapSasUrls(refs, conv) ==
  LET sedimentUrls == IF conv.present THEN findSedimentUrlsInJson(conv) ELSE <<>>
      mapped(ref) ==
        LET fileId == RemoveFirst(ref.assetPointer, SED)
            rawId == IF StartsWith(fileId, FU) THEN Tail(fileId) ELSE fileId
            uuidWithHyphens == IF Includes(rawId, "-") THEN rawId ELSE HyphenateUuid(rawId)
            matches == SelectSeq(sedimentUrls, LAMBDA item : <<item.uuid>> = uuidWithHyphens)
        IN IF ref.assetPointer # NULL /\ Includes(ref.assetPointer, SED) /\ matches # <<>>
             THEN [ref EXCEPT !.renderedUrl = matches[1].url]
             ELSE ref
  IN [k \in 1..Len(refs) |-> mapped(refs[k])]

\* sub occurs in s as a run of consecutive tokens
ContainsSeq(s, sub) ==
  \E k \in 0..(Len(s) - Len(sub)) : SubSeq(s, k + 1, k + Len(sub)) = sub

\* MediaExtractor.findRenderedImages
findRenderedImages(refs, images) ==
  LET search(ref) ==
        LET a == ref.fileId
            b == IF StartsWith(a, FU) THEN Tail(a) ELSE a
        IN IF StartsWith(b, FD) THEN Tail(b) ELSE b
      hits(ref) == SelectSeq(images, LAMBDA src : ref.fileId # NULL /\ ContainsSeq(src, search(ref)))
  IN [k \in 1..Len(refs) |->
        IF refs[k].type = "image" /\ hits(refs[k]) # <<>>
          THEN [refs[k] EXCEPT !.renderedUrl = hits(refs[k])[1]]
          ELSE refs[k]]

\* the loop that prepares the references: a title becomes the custom name
\* of a reference that has none
PrepareRefs(refs) ==
  [k \in 1..Len(refs) |->
     IF refs[k].title # NULL /\ refs[k].customName = NULL
       THEN [refs[k] EXCEPT !.customName = SafeTitle(refs[k].title)]
       ELSE refs[k]]

\* /https?:\/\/sdmntpr[a-z0-9]*\.oaiusercontent\.com\/files\/[0-9a-f\-]+\/raw[^"']*/
IsSedimentRawUrl(u) ==
  /\ Len(u) >= 7
  /\ u[1] \in {"http://", "https://"} /\ u[2] = "sdmntpr" /\ SeqIncludes(sedimentRegions, u[3])
  /\ u[4] = ".oaiusercontent.com" /\ u[5] = "/files/" /\ u[6] \in {UUID, HEX32}
  /\ u[7] = "/raw"

\* /https?:\/\/(files[0-9]*|sdmntpr[a-z0-9]*)\.(oai|openai)usercontent\.com\/[^"']+/
IsUserContentUrl(u) ==
  /\ Len(u) >= 4
  /\ u[1] \in {"http://", "https://"}
  /\ \/ u[2] = "files.oaiusercontent.com" /\ u[3] \in {"/file-", "/file/"}
     \/ u[2] = "sdmntpr" /\ Len(u) >= 6 /\ u[4] = ".oaiusercontent.com" /\ u[5] = "/files/"

\* allUrlMatches without the includes() test of the merge
DirectUrlsInJson_NoDedup(conv) ==
  SelectSeq(conv.strings, IsSedimentRawUrl) \o SelectSeq(conv.strings, IsUserContentUrl)

\* allUrlMatches of the payload scan
DirectUrlsInJson(conv) ==
  LET sedimentMatches == SelectSeq(conv.strings, IsSedimentRawUrl)
      fileIdMatches == SelectSeq(conv.strings, IsUserContentUrl)
  IN sedimentMatches \o SelectSeq(fileIdMatches, LAMBDA u : ~SeqIncludes(sedimentMatches, u))

StartBatch ==
  /\ pc = "start"
  /\ LET scanned == findRenderedImages(MapSasUrls(mediaReferences, conversationData),
                                       page.images)
         prepared == PrepareRefs(scanned)
         direct == IF Len(prepared) = 0 /\ conversationData.present
                     THEN DirectUrlsInJson(conversationData) ELSE <<>>
     IN /\ mediaReferences' = prepared
        /\ results' = [total |-> Len(prepared), completed |-> 0, failed |-> 0, files |-> <<>>]
        /\ dm' = [DmIdle EXCEPT !.jsonUrls = direct, !.jsonIdx = 1]
        /\ pc' = IF direct # <<>> THEN "json_direct" ELSE "loop"
  /\ i' = 1
  /\ UNCHANGED <<ex, authManager, probe, page, conversationData, outcome, result, log, env>>

\* one pass of the loop over the direct URLs found in the payload
JsonDirectDownload ==
  /\ pc = "json_direct"
  /\ LET directUrl == dm.jsonUrls[dm.jsonIdx]
         last == dm.jsonIdx = Len(dm.jsonUrls)
     IN /\ \/ /\ page.hasDownloads
              /\ log' = Append(log, [Req("chrome.downloads", directUrl, FALSE, DispatchAnswer)
                                       EXCEPT !.ref = 0])
              /\ results' = [results EXCEPT
                   !.completed = @ + 1,
                   !.files = Append(@, [ref |-> 0,
                                        result |-> Success("direct_chrome_download", NULL,
                                                           NOBLOB, directUrl)])]
           \* chrome.downloads is undefined: the promise rejects, nothing is counted
           \/ /\ ~page.hasDownloads
              /\ UNCHANGED <<log, results>>
        /\ dm' = [dm EXCEPT !.jsonIdx = @ + 1]
        /\ pc' = IF last THEN "loop" ELSE "json_direct"
  /\ UNCHANGED <<ex, authManager, probe, page, conversationData, mediaReferences, i, outcome, result, env>>


(***************************************************************************)
(* downloadMedia                                                           *)
(***************************************************************************)
Ref == mediaReferences[i]

IsSediment(ref) == ref.assetPointer # NULL /\ Includes(ref.assetPointer, SED)

\* renderedUrl carries the signature token of a storage mirror
HasSasUrl(ref) ==
  /\ ref.renderedUrl # NULL
  /\ Includes(ref.renderedUrl, "sdmntpr")
  /\ Includes(ref.renderedUrl, "/raw")
  /\ Includes(ref.renderedUrl, "sig=")

\* response.success of the listener's answer to a directDownload request
DirectDownloadAnswer == "directDownload" \in BackgroundHandles /\ DispatchAnswer

RenderedContentType(ref) ==
  IF Includes(ref.renderedUrl, ".jpg") \/ Includes(ref.renderedUrl, ".jpeg")
    THEN <<"image/jpeg">> ELSE <<"image/png">>

\* where downloadMedia continues after the sediment block
RenderedEntry(ref) ==
  IF ref.renderedUrl # NULL /\ StartsWith(ref.renderedUrl, "http") /\ page.hasDownloads
    THEN "rendered_chrome" ELSE "generate"

RegionsEntry(ref) == IF Len(Regions) > 0 THEN "regions" ELSE RenderedEntry(ref)

\* uuidWithHyphens of the sediment block
SedimentUuid(ref) ==
  LET cleanId == RemoveFirst(ref.assetPointer, SED)
      fileUuid == IF StartsWith(cleanId, FU) THEN Tail(cleanId) ELSE cleanId
  IN IF Includes(fileUuid, "-") THEN fileUuid ELSE HyphenateUuid(fileUuid)

ReturnFromDownloadMedia(r) == result' = r /\ pc' = "dm_return"

\* the loop of downloadAllMedia calls downloadMedia for reference i
CallDownloadMedia ==
  /\ pc = "loop"
  /\ i <= Len(mediaReferences)
  /\ dm' = [DmIdle EXCEPT !.regionIdx = 1]
  /\ pc' = IF IsSediment(Ref) /\ HasSasUrl(Ref) THEN "sas"
           ELSE IF IsSediment(Ref) THEN RegionsEntry(Ref)
           ELSE RenderedEntry(Ref)
  /\ result' = NoResult
  /\ UNCHANGED <<ex, authManager, probe, page, conversationData, mediaReferences, results, i, outcome, log, env>>

\* SasDownload without the return on success: the region loop follows
SasDownload_FallsThrough ==
  /\ pc = "sas"
  /\ log' = Append(log, Req("directDownload", mediaReferences[i].renderedUrl, FALSE,
                            DirectDownloadAnswer))
  /\ pc' = RegionsEntry(mediaReferences[i])
  /\ UNCHANGED <<ex, authManager, probe, page, conversationData, mediaReferences, results, i, outcome, dm,
                 result, env>>

\* directDownload of the rendered URL that carries the signature
SasDownload ==
  /\ pc = "sas"
  /\ LET ok == DirectDownloadAnswer
     IN
       /\ log' = Append(log, Req("directDownload", Ref.renderedUrl, FALSE, ok))
       /\ IF ok
            THEN ReturnFromDownloadMedia(
                   Success("direct_sediment_download_with_sas", <<"image/png">>, NOBLOB,
                           Ref.renderedUrl))
            ELSE pc' = RegionsEntry(Ref) /\ UNCHANGED result
  /\ UNCHANGED <<ex, authManager, probe, page, conversationData, mediaReferences, results, i, outcome, dm, env>>

\* directDownload of the mirror of one region
RegionDownload ==
  /\ pc = "regions"
  /\ LET sedimentUrl == SedimentUrl(Regions[dm.regionIdx], SedimentUuid(Ref))
         ok == DirectDownloadAnswer
     IN   /\ log' = Append(log, Req("directDownload", sedimentUrl, FALSE, ok))
          /\ IF ok
               THEN /\ ReturnFromDownloadMedia(
                         Success("direct_sediment_download", <<"image/png">>, NOBLOB,
                                 sedimentUrl))
                    /\ UNCHANGED dm
               ELSE /\ dm' = [dm EXCEPT !.regionIdx = @ + 1]
                    /\ pc' = IF dm.regionIdx < Len(Regions) THEN "regions"
                             ELSE RenderedEntry(Ref)
                    /\ UNCHANGED result
  /\ UNCHANGED <<ex, authManager, probe, page, conversationData, mediaReferences, results, i, outcome, env>>

\* chrome.downloads.download of the rendered URL
RenderedChromeDownload ==
  /\ pc = "rendered_chrome"
  /\ LET ok == DispatchAnswer
     IN
       /\ log' = Append(log, Req("chrome.downloads", Ref.renderedUrl, FALSE, ok))
       /\ IF ok
            THEN ReturnFromDownloadMedia(
                   Success("chrome_downloads_direct", RenderedContentType(Ref), NOBLOB,
                           Ref.renderedUrl))
            ELSE pc' = "rendered_bg" /\ UNCHANGED result
  /\ UNCHANGED <<ex, authManager, probe, page, conversationData, mediaReferences, results, i, outcome, dm, env>>

\* directDownload of the rendered URL
RenderedBackgroundDownload ==
  /\ pc = "rendered_bg"
  /\ LET ok == DirectDownloadAnswer
     IN
       /\ log' = Append(log, Req("directDownload", Ref.renderedUrl, FALSE, ok))
       /\ IF ok
            THEN ReturnFromDownloadMedia(
                   Success("background_script_direct", RenderedContentType(Ref), NOBLOB,
                           Ref.renderedUrl))
            ELSE pc' = "generate" /\ UNCHANGED result
  /\ UNCHANGED <<ex, authManager, probe, page, conversationData, mediaReferences, results, i, outcome, dm, env>>

RECURSIVE UnshiftMissing(_, _)
\* for (const url of urls) if (!list.includes(url)) list.unshift(url)
UnshiftMissing(list, urls) ==
  IF urls = <<>> THEN list
  ELSE UnshiftMissing(IF SeqIncludes(list, Head(urls)) THEN list ELSE <<Head(urls)>> \o list,
                      Tail(urls))

\* the worklist downloadMedia builds before its first fetch
BuildUrlsToTry(fileId, currentDomain) ==
  LET primaryUrls == generateAlternativeUrls(fileId, "chat.openai.com")
      secondaryUrls == generateAlternativeUrls(fileId, currentDomain)
      cleanId == RemoveFirst(fileId, SED)
      hasFilePrefix == StartsWith(cleanId, FU)
      actualId == IF hasFilePrefix THEN Tail(cleanId) ELSE cleanId
      withFilePrefix == IF hasFilePrefix THEN cleanId ELSE <<FU>> \o cleanId
      cdnUrls == << FilesCdn("/file/", actualId), FilesCdn("/file/", withFilePrefix),
                    FilesCdn("/file/", cleanId),
                    FilesCdn("/file-", actualId), FilesCdn("/file-", withFilePrefix),
                    FilesCdn("/file-", cleanId),
                    StaticCdn("/", actualId), StaticCdn("/", withFilePrefix),
                    StaticCdn("/", cleanId),
                    StaticCdn("/images/", actualId \o <<".png">>),
                    StaticCdn("/images/", withFilePrefix \o <<".png">>),
                    StaticCdn("/images/", cleanId \o <<".png">>) >>
      uuidWithHyphens == IF Includes(actualId, "-") THEN actualId ELSE HyphenateUuid(actualId)
      mirrors == [k \in 1..Len(Regions) |-> SedimentUrl(Regions[k], uuidWithHyphens)]
      combined == cdnUrls \o primaryUrls \o secondaryUrls
  IN IF Includes(fileId, SED) \/ StartsWith(fileId, FU)
       THEN UnshiftMissing(combined, mirrors)
       ELSE combined

GenerateCandidates ==
  /\ pc = "generate"
  /\ LET fileId == IF Ref.assetPointer # NULL THEN Ref.assetPointer
                   ELSE IF Ref.fileId # NULL THEN Ref.fileId ELSE Ref.canvasId
     IN IF fileId = NULL
          THEN /\ ReturnFromDownloadMedia(Failure("No valid file identifier found", <<>>))
               /\ UNCHANGED dm
          ELSE /\ dm' = [dm EXCEPT !.fileId = fileId,
                                   !.urlsToTry = BuildUrlsToTry(fileId, page.hostname),
                                   !.genCalls = @ + 2]
               /\ pc' = "bg_download"
               /\ UNCHANGED result
  /\ UNCHANGED <<ex, authManager, probe, page, conversationData, mediaReferences, results, i, outcome, log, env>>

\* infoUrls of fetchMetadataForUrls, over both domains
InfoUrls(fileId) ==
  LET dalleId == IF Includes(fileId, SED) THEN SplitSecond(fileId, SED) ELSE fileId
      bare == IF StartsWith(dalleId, FU) THEN Tail(dalleId) ELSE dalleId
      api(d, path, id) == <<"https://", d, path>> \o id
      for(d) == << api(d, "/backend-api/files/", dalleId),
                   api(d, "/backend-api/files/info/", dalleId),
                   api(d, "/backend-api/files/info/", bare) >> \o
                (IF Includes(fileId, SED)
                   THEN << api(d, "/backend-api/sediment/info/", dalleId),
                           api(d, "/backend-api/sediment/info/", bare),
                           api(d, "/backend-api/images/generations/", dalleId),
                           api(d, "/backend-api/images/generations/", bare) >>
                   ELSE <<>>)
  IN for("chat.openai.com") \o for("chatgpt.com")

MetadataApplies(fileId) ==
  Includes(fileId, SED) \/ Includes(fileId, FU) \/ Includes(fileId, "file-")

IsHttp(url) == url # NULL /\ url[1] \in {"http://", "https://"}

\* downloadViaBackgroundScript: the 'downloadMedia' request and its handler
\* downloadMedia(url, token, filename) / downloadFromUnsafeUrl of the
\* background script
BackgroundDownload ==
  /\ pc = "bg_download"
  /\ LET target == IF Includes(dm.fileId, FSV)
                     THEN <<"https://", "chatgpt.com", "/backend-api/files/">> \o
                          SplitSecond(dm.fileId, FSV) \o <<"/download">>
                     ELSE dm.fileId
         auth == ~Includes(target, "googleusercontent") /\ ~Includes(target, "oaiusercontent")
         handled == "downloadMedia" \in BackgroundHandles
         r == IF handled THEN FetchAnswer(target, auth) ELSE NetErr
         \* chrome.downloads.download of the blob URL or, without a blob, of the target
         ok == handled /\ (r.status = 200 \/ IsHttp(target)) /\ DispatchAnswer
     IN   /\ log' = log \o
               << Req("downloadMedia", dm.fileId, FALSE, ok) >> \o
               (IF handled
                  THEN << [Req("bg.fetch", target, auth, r.status = 200) EXCEPT !.body = r.body],
                          Req("bg.download",
                              IF r.status = 200 THEN <<"blob:">> ELSE target, FALSE, ok) >>
                  ELSE <<>>)
          /\ IF ok
               THEN /\ ReturnFromDownloadMedia(Success("background_direct", NULL, NOBLOB, NULL))
                    /\ UNCHANGED dm
               ELSE /\ IF MetadataApplies(dm.fileId)
                         THEN /\ dm' = [dm EXCEPT !.infoUrls = InfoUrls(dm.fileId),
                                                  !.infoIdx = 1]
                              /\ pc' = "metadata"
                         ELSE /\ dm' = [dm EXCEPT !.pos = 1]
                              /\ pc' = "candidates"
                    /\ UNCHANGED result
  /\ UNCHANGED <<ex, authManager, probe, page, conversationData, mediaReferences, results, i, outcome, env>>

\* one pass of the loop of fetchMetadataForUrls over infoUrls
MetadataProbe ==
  /\ pc = "metadata"
  /\ LET infoUrl == dm.infoUrls[dm.infoIdx]
         a == FetchMediaAnswer(infoUrl)
         r == FetchAnswer(infoUrl, TRUE)
     IN   LET viaBackground == IF a.answered /\ a.success THEN BodyJson(a.body, infoUrl)
                               ELSE NOJSON
              direct == viaBackground = NOJSON
              jsonData == IF ~direct THEN viaBackground
                          ELSE IF r.status = 200 THEN BodyJson(r.body, infoUrl) ELSE NOJSON
              fileUrl == IF jsonData = NOJSON THEN NULL ELSE parseJsonForFileUrl(jsonData)
              finished == fileUrl # NULL \/ dm.infoIdx = Len(dm.infoUrls)
              additionalUrls == IF fileUrl # NULL THEN <<fileUrl>> ELSE <<>>
          IN /\ log' = log \o
                  << [Req("info.fetchMedia", infoUrl, TRUE, a.success) EXCEPT !.body = a.body] >> \o
                  (IF direct
                     THEN << [Req("info.fetch", infoUrl, TRUE, r.status = 200)
                                EXCEPT !.body = r.body] >>
                     ELSE <<>>)
             /\ IF finished
                  THEN /\ dm' = [dm EXCEPT
                                   !.urlsToTry = UnshiftMissing(@, additionalUrls),
                                   !.pos = 1]
                       /\ pc' = "candidates"
                  ELSE /\ dm' = [dm EXCEPT !.infoIdx = @ + 1]
                       /\ pc' = "metadata"
  /\ UNCHANGED <<ex, authManager, probe, page, conversationData, mediaReferences, results, i, outcome, result, env>>


(***************************************************************************)
(* downloadMedia: the candidate loop and the signed-URL pass               *)
(***************************************************************************)
Url == dm.urlsToTry[dm.pos]

\* the failure that reports only the last reason
Exhausted_LastOnly(errorMessages) ==
  Failure("All URL formats failed",
          IF errorMessages = <<>> THEN <<>> ELSE <<errorMessages[Len(errorMessages)]>>)

Exhausted(errorMessages) == Failure("All URL formats failed", errorMessages)

\* 'continue' and the end of the loop body: the next candidate, or, past
\* the last one, the pass over jsonResponseUrls, or the failure
Continue(d) ==
  IF d.pos < Len(d.urlsToTry)
    THEN dm' = [d EXCEPT !.pos = @ + 1] /\ pc' = "candidates" /\ UNCHANGED result
  ELSE IF d.jsonResponseUrls # <<>>
    THEN dm' = [d EXCEPT !.signedIdx = 1] /\ pc' = "signed" /\ UNCHANGED result
  ELSE dm' = d /\ ReturnFromDownloadMedia(Exhausted(d.errorMessages))

\* a success that does not break out of the loop: the remaining
\* candidates are still tried before the response is returned
OnSuccess_NoBreak(d, response) ==
  IF d.pos < Len(d.urlsToTry)
    THEN dm' = [d EXCEPT !.pos = @ + 1] /\ UNCHANGED <<pc, result>>
    ELSE dm' = d /\ ReturnFromDownloadMedia(fixContentTypeIssues(response, mediaReferences[i]))

\* a fetcher returned a success: break, then return the response with
\* its content type fixed
OnSuccess(d, response) ==
  /\ dm' = d
  /\ ReturnFromDownloadMedia(fixContentTypeIssues(response, mediaReferences[i]))

\* the redirect pushed without the includes() test
OnRedirect_AlwaysAppend(d, redirectUrl) ==
  [d EXCEPT !.jsonResponseUrls = Append(@, redirectUrl),
            !.urlsToTry = Append(@, redirectUrl)]

\* a fetcher returned {redirectUrl}
OnRedirect(d, redirectUrl) ==
  [d EXCEPT !.jsonResponseUrls = Append(@, redirectUrl),
            !.urlsToTry = IF SeqIncludes(@, redirectUrl) THEN @ ELSE Append(@, redirectUrl)]

IsPublicCdn(url) == Includes(url, "cdn.oaistatic.com") \/ Includes(url, "files.oaiusercontent.com")

\* fetchViaBackgroundScript(url, ...): a redirect, a success, null (NoResult),
\* or an exception, whose message is the error of the verdict
BackgroundFetchResult(url) ==
  LET a == FetchMediaAnswer(url)
  IN IF ~a.answered THEN Failure("Error with background fetch", <<"no response">>)
     ELSE IF ~a.success THEN Failure("Error with background fetch", <<"fetch failed">>)
     ELSE BackgroundFetchVerdict(a.ctype, a.body, url)

\* fetchDirectly retrying without the header after a 401 from any host
DirectFetchResponses_RetryAnywhere(url) ==
  LET r1 == FetchAnswer(url, TRUE)
  IN IF r1.status = 401 THEN <<r1, FetchAnswer(url, FALSE)>> ELSE <<r1>>

\* the requests fetchDirectly(url, ...) sends: the authenticated fetch and,
\* after a 401 from a CDN host, the fetch without the header
DirectFetchResponses(url) ==
  LET r1 == FetchAnswer(url, TRUE)
  IN IF r1.status = 401 /\ IsPublicCdn(url) THEN <<r1, FetchAnswer(url, FALSE)>> ELSE <<r1>>

\* fetchDirectly(url, ...)
DirectFetchResult(mediaRef, url) ==
  LET responses == DirectFetchResponses(url)
      response == responses[Len(responses)]
  IN IF response.status = 0 THEN Failure("Error with direct fetch", <<"network error">>)
     ELSE IF response.status # 200
       THEN Failure("Error with direct fetch", <<"Direct fetch failed with status 401">>)
     ELSE DirectFetchVerdict(mediaRef, response.ctype, response.body, url)

Threw(r) == r.error.head # "none"

\* one pass of the loop over urlsToTry: the background fetch and, unless it
\* settled the pass, the direct fetch
TryCandidate ==
  /\ pc = "candidates"
  /\ LET viaBackground == BackgroundFetchResult(Url)
         direct == DirectFetchResult(Ref, Url)
         triedDirect == viaBackground.redirectUrl = NULL /\ ~viaBackground.success
         responses == DirectFetchResponses(Url)
         afterBackground ==
           IF Threw(viaBackground)
             THEN [dm EXCEPT !.errorMessages =
                               Append(@, Reason("background", Url, viaBackground.error.reasons[1]))]
             ELSE dm
     IN /\ log' = log \o
             << [Req("fetchMedia", Url, TRUE, FetchMediaAnswer(Url).success)
                   EXCEPT !.body = FetchMediaAnswer(Url).body] >> \o
             (IF triedDirect
                THEN [k \in 1..Len(responses) |->
                        [Req("fetch", Url, k = 1, responses[k].status = 200)
                           EXCEPT !.body = responses[k].body]]
                ELSE <<>>)
        /\ IF viaBackground.redirectUrl # NULL
             THEN Continue(OnRedirect(dm, viaBackground.redirectUrl))
           ELSE IF viaBackground.success
             THEN OnSuccess(dm, viaBackground)
           ELSE IF Threw(direct)
             THEN Continue([afterBackground EXCEPT !.errorMessages =
                              Append(@, Reason("direct", Url, direct.error.reasons[1]))])
           ELSE IF direct.redirectUrl # NULL
             THEN Continue(OnRedirect(afterBackground, direct.redirectUrl))
           ELSE IF direct.success
             THEN OnSuccess(afterBackground, direct)
           ELSE Continue(afterBackground)
  /\ UNCHANGED <<ex, authManager, probe, page, conversationData, mediaReferences, results, i, outcome, env>>

\* fetchFromSignedUrl for one of the redirect URLs collected by the loop
SignedFetch ==
  /\ pc = "signed"
  /\ LET url == dm.jsonResponseUrls[dm.signedIdx]
         r == FetchAnswer(url, FALSE)
     IN   /\ log' = Append(log, [Req("signedFetch", url, FALSE, r.status = 200)
                                   EXCEPT !.body = r.body])
          /\ IF r.status = 200
               THEN /\ ReturnFromDownloadMedia(
                         fixContentTypeIssues(SignedFetchVerdict(r.ctype, r.body), Ref))
                    /\ UNCHANGED dm
             ELSE IF dm.signedIdx < Len(dm.jsonResponseUrls)
               THEN dm' = [dm EXCEPT !.signedIdx = @ + 1] /\ UNCHANGED <<pc, result>>
             ELSE ReturnFromDownloadMedia(Exhausted(dm.errorMessages)) /\ UNCHANGED dm
  /\ UNCHANGED <<ex, authManager, probe, page, conversationData, mediaReferences, results, i, outcome, env>>

(***************************************************************************)
(* downloadAllMedia: the loop over the references                          *)
(***************************************************************************)
\* the branch on result.success that does not wait for the save of the blob
RecordResult_SaveNotAwaited ==
  /\ pc = "dm_return"
  /\ results' = [results EXCEPT !.completed = @ + (IF result.success THEN 1 ELSE 0),
                                !.failed = @ + (IF result.success THEN 0 ELSE 1),
                                !.files = Append(@, [ref |-> i, result |-> result])]
  /\ pc' = "loop"
  /\ i' = i + 1
  /\ UNCHANGED <<ex, authManager, probe, page, conversationData, mediaReferences, outcome, dm, result, log, env>>

\* the branch on result.success that keeps no entry for a failed reference
RecordResult_FailureNotStored ==
  /\ pc = "dm_return"
  /\ IF result.success
       THEN /\ results' = [results EXCEPT
                 !.completed = @ + 1,
                 !.files = Append(@, [ref |-> i, result |-> result,
                                      filename |-> createSuitableFilename(Ref, result.contentType)])]
            /\ IF result.blob # NOBLOB
                 THEN pc' = "save" /\ UNCHANGED i
                 ELSE pc' = "loop" /\ i' = i + 1
       ELSE /\ results' = [results EXCEPT !.failed = @ + 1]
            /\ pc' = "loop"
            /\ i' = i + 1
  /\ UNCHANGED <<ex, authManager, probe, page, conversationData, mediaReferences, outcome, dm, result, log, env>>

\* the branch on result.success after downloadMedia returned
RecordResult ==
  /\ pc = "dm_return"
  /\ IF result.success
       THEN /\ results' = [results EXCEPT
                 !.completed = @ + 1,
                 !.files = Append(@, [ref |-> i, result |-> result,
                                      filename |-> createSuitableFilename(Ref, result.contentType)])]
            /\ IF result.blob # NOBLOB
                 THEN pc' = "save" /\ UNCHANGED i
                 ELSE pc' = "loop" /\ i' = i + 1
       ELSE /\ results' = [results EXCEPT !.failed = @ + 1,
                                          !.files = Append(@, [ref |-> i, result |-> result])]
            /\ pc' = "loop"
            /\ i' = i + 1
  /\ UNCHANGED <<ex, authManager, probe, page, conversationData, mediaReferences, outcome, dm, result, log, env>>

\* FileUtils.downloadBlobToPath(result.blob, filePath): with chrome.downloads
\* the returned promise resolves, or rejects when the dispatch reports
\* lastError; without it the link fallback resolves
SaveBlob ==
  /\ pc = "save"
  /\ LET ok == ~page.hasDownloads \/ DispatchAnswer IN
       /\ log' = Append(log, [Req("save", <<"blob:">>, FALSE, ok) EXCEPT !.body = result.blob.body])
       /\ IF ok
            THEN pc' = "loop" /\ i' = i + 1 /\ UNCHANGED outcome
            ELSE pc' = "done" /\ outcome' = "threw" /\ UNCHANGED i
  /\ UNCHANGED <<ex, authManager, probe, page, conversationData, mediaReferences, results, dm, result, env>>

\* return results
ReturnResults ==
  /\ pc = "loop"
  /\ i > Len(mediaReferences)
  /\ pc' = "done"
  /\ outcome' = "returned"
  /\ UNCHANGED <<ex, authManager, probe, page, conversationData, mediaReferences, results, i, dm, result, log, env>>

Next ==
  \/ StartBatch
  \/ JsonDirectDownload
  \/ CallDownloadMedia
  \/ SasDownload
  \/ RegionDownload
  \/ RenderedChromeDownload
  \/ RenderedBackgroundDownload
  \/ GenerateCandidates
  \/ BackgroundDownload
  \/ MetadataProbe
  \/ TryCandidate
  \/ SignedFetch
  \/ RecordResult
  \/ SaveBlob
  \/ ReturnResults

Spec == Init /\ [][Next]_vars


(***************************************************************************)
(* The fetchers' validation of a response, on its own                      *)
(***************************************************************************)
\* the content types a response can claim
ClaimedTypes == {NULL, <<"image/png">>, <<"image/jpeg">>, <<"application/json">>,
                 <<"text/plain">>, <<"application/octet-stream">>, <<"audio/mpeg">>,
                 <<"application/pdf">>}

ProbeUrl == FilesCdn("/file-", <<"XyZ">>)

ValidatorInit ==
  /\ probe \in [stage : {"drawn"}, claimed : ClaimedTypes, body : Bodies, verdict : {NoResult}]
  /\ page = [hostname |-> "chatgpt.com", hasDownloads |-> TRUE, images |-> <<>>]
  /\ conversationData = ConvPlain
  /\ mediaReferences = <<RefUpload>>
  /\ results = [total |-> 0, completed |-> 0, failed |-> 0, files |-> <<>>]
  /\ i = 1
  /\ pc = "validator"
  /\ outcome = "running"
  /\ dm = DmIdle
  /\ result = NoResult
  /\ log = <<>>
  /\ env = [hosts |-> [h \in Hosts |-> "down"], accepts |-> FALSE]
  /\ ex = ExIdle
  /\ authManager = AuthIdle

\* fetchViaBackgroundScript on a background answer carrying the response:
\* the blob is built with the claimed type
ValidateBackground ==
  /\ probe.stage = "drawn"
  /\ probe' = [probe EXCEPT !.stage = "background",
                            !.verdict = BackgroundFetchVerdict(probe.claimed, probe.body, ProbeUrl)]
  /\ UNCHANGED <<page, conversationData, mediaReferences, results, i, pc, outcome, dm, result,
                 log, env, ex, authManager>>

\* fetchDirectly on the response: the blob it validates has no type
ValidateDirect ==
  /\ probe.stage = "drawn"
  /\ probe' = [probe EXCEPT !.stage = "direct",
                            !.verdict = DirectFetchVerdict(Ref, probe.claimed, probe.body, ProbeUrl)]
  /\ UNCHANGED <<page, conversationData, mediaReferences, results, i, pc, outcome, dm, result,
                 log, env, ex, authManager>>

ValidatorNext == ValidateBackground \/ ValidateDirect

ValidatorSpec == ValidatorInit /\ [][ValidatorNext]_vars


(***************************************************************************)
(* Properties                                                              *)
(***************************************************************************)
\* the requests issued for reference k, in order
LogOf(k) == SelectSeq(log, LAMBDA e : e.ref = k)

\* the results recorded for reference k
FilesOf(k) == SelectSeq(results.files, LAMBDA f : f.ref = k)

\* C1: a failure on one reference never aborts the batch: whatever the
\* fetches and the save dispatch answer, no exception leaves downloadAllMedia.
C1_NoExceptionLeavesBatch == outcome # "threw"

\* C2: downloadMedia returns success only for a payload the validator judged
\* genuine binary: a successful result that carries a blob never carries a
\* JSON or text body.
C2_SuccessOnlyForBinary ==
  (pc = "dm_return" /\ result.success /\ result.blob # NOBLOB)
    => isBinaryBlob(NULL, BodyBytes(result.blob.body))

\* C3: the verdict of the background fetcher's validation (isBinaryBlob, then
\* detectFileTypeFromBytes) on a 2xx response depends only on the bytes: every
\* other claimed type gives the same Binary/non-Binary verdict and the same
\* confirmed type for the same body.
C3_VerdictDependsOnlyOnBytes ==
  probe.stage = "background"
    => \A t \in ClaimedTypes :
         LET other == BackgroundFetchVerdict(t, probe.body, ProbeUrl)
         IN /\ other.success = probe.verdict.success
            /\ other.success => other.contentType = probe.verdict.contentType

\* the URLs a JSON answer to a request for a URL of the worklist can name
Nameable(urls) ==
  {Signed(urls[k]) : k \in {n \in 1..Len(urls) : ~IsSigned(urls[n])}} \cup
  {Unsigned(urls[k]) : k \in {n \in 1..Len(urls) : IsSigned(urls[n])}}

\* the passes the candidate loop can still make: the candidates left, and
\* the URLs that can still be appended
PassesLeft(d) ==
  (Len(d.urlsToTry) - d.pos) +
  Cardinality(Nameable(d.urlsToTry) \ {d.urlsToTry[k] : k \in 1..Len(d.urlsToTry)})

\* C4: in the candidate loop a redirect URL that is already in the worklist
\* is not appended again (the worklist changes only by appending a redirect
\* URL it did not hold), so over the finite set of URLs the answers can name
\* every pass leaves fewer passes to make, the pass over the redirect URLs
\* only advances, and downloadMedia ends with a result.
C4_RedirectLoopBound ==
  [][/\ pc = "candidates" =>
          LET named == dm'.jsonResponseUrls # dm.jsonResponseUrls
              u == dm'.jsonResponseUrls[Len(dm'.jsonResponseUrls)]
          IN /\ IF named /\ ~SeqIncludes(dm.urlsToTry, u)
                  THEN dm'.urlsToTry = Append(dm.urlsToTry, u)
                  ELSE dm'.urlsToTry = dm.urlsToTry
             /\ pc' \in {"candidates", "signed", "dm_return"}
             /\ pc' = "candidates" => PassesLeft(dm') < PassesLeft(dm)
     /\ pc = "signed" =>
          \/ pc' = "dm_return"
          \/ /\ pc' = "signed"
             /\ dm'.jsonResponseUrls = dm.jsonResponseUrls
             /\ dm'.signedIdx = dm.signedIdx + 1
             /\ dm'.signedIdx <= Len(dm.jsonResponseUrls)]_vars

\* C4 witness: downloadMedia has returned after a JSON answer named one of
\* the generated candidates, which the worklist still holds exactly once.
C4_Witness ==
  /\ pc = "dm_return"
  /\ dm.fileId # NULL
  /\ \E k \in 1..Len(dm.jsonResponseUrls) :
       /\ SeqIncludes(BuildUrlsToTry(dm.fileId, page.hostname), dm.jsonResponseUrls[k])
       /\ Cardinality({n \in 1..Len(dm.urlsToTry) :
                         dm.urlsToTry[n] = dm.jsonResponseUrls[k]}) = 1

\* C5: within one run of downloadMedia no (URL, strategy) pair is attempted
\* twice: no two requests of one reference agree in fetcher, URL and use of
\* the Authorization header.
C5_NoPairTwice ==
  \A a, b \in 1..Len(log) :
    (a < b /\ log[a].ref # 0 /\ log[a].ref = log[b].ref
       /\ log[a].kind \in {"fetchMedia", "fetch", "signedFetch"})
      => ~(log[a].kind = log[b].kind /\ log[a].url = log[b].url /\ log[a].auth = log[b].auth)

\* C6: when a sediment reference carries a signed storage-mirror renderedUrl
\* and the directDownload of it succeeds, downloadMedia returns success with
\* method 'direct_sediment_download_with_sas' after that single request: no
\* call of generateAlternativeUrls, no other request for the reference.
C6_SasShortCircuit ==
  \A k \in 1..Len(mediaReferences) :
    LET mine == LogOf(k)
        ref == mediaReferences[k]
    IN (pc # "start" /\ IsSediment(ref) /\ HasSasUrl(ref) /\ mine # <<>> /\ mine[1].ok)
         => /\ mine[1].kind = "directDownload"
            /\ mine[1].url = ref.renderedUrl
            /\ Len(mine) = 1
            /\ (k = i) => /\ pc = "dm_return"
                          /\ result.success
                          /\ result.method = "direct_sediment_download_with_sas"
                          /\ dm.genCalls = 0
            /\ (k < i) => /\ Len(FilesOf(k)) = 1
                          /\ FilesOf(k)[1].result.success
                          /\ FilesOf(k)[1].result.method = "direct_sediment_download_with_sas"

\* C6 witness: downloadMedia has just returned by the signed-URL shortcut.
C6_Witness ==
  /\ pc = "dm_return"
  /\ result.method = "direct_sediment_download_with_sas"
  /\ Len(LogOf(i)) = 1

\* a request whose answer makes the strategy that sent it report success
Yields(e) ==
  CASE e.kind \in {"directDownload", "chrome.downloads", "bg.download", "signedFetch"} -> e.ok
    [] e.kind \in {"fetch", "fetchMedia"} -> e.ok /\ isBinaryBlob(NULL, BodyBytes(e.body))
    [] OTHER -> FALSE

\* C7: the executor halts on the first success: after a request of
\* downloadMedia that yielded a success, the only request still issued for
\* that reference is the save of the returned blob by the batch loop.
C7_HaltsOnFirstSuccess ==
  \A b \in 1..Len(log) :
    (b > Len(log) - 3 /\ log[b].ref # 0 /\ log[b].kind # "save")
      => \A a \in 1..(b - 1) : log[a].ref = log[b].ref => ~Yields(log[a])

\* C7 witness: a direct fetch succeeded while candidates were left untried.
C7_Witness ==
  /\ pc = "dm_return"
  /\ result.success
  /\ result.method = "direct_fetch"
  /\ dm.pos < Len(dm.urlsToTry)
  /\ Yields(log[Len(log)])

\* the failed attempts of the candidate loop, as (fetcher, URL) pairs: the
\* fetchMedia requests that got no success and the direct fetches whose last
\* response was no 2xx
FailedAttempts(mine) ==
  LET failed(k) ==
        /\ ~mine[k].ok
        /\ \/ mine[k].kind = "fetchMedia"
           \/ /\ mine[k].kind = "fetch"
              /\ ~(k < Len(mine) /\ mine[k + 1].kind = "fetch" /\ ~mine[k + 1].auth)
      positions == {k \in 1..Len(mine) : failed(k)}
      pair(e) == <<IF e.kind = "fetchMedia" THEN "background" ELSE "direct", e.url>>
      RECURSIVE collect(_)
      collect(k) == IF k > Len(mine) THEN <<>>
                    ELSE (IF k \in positions THEN <<pair(mine[k])>> ELSE <<>>) \o collect(k + 1)
  IN collect(1)

\* C8: when every candidate and strategy fails, downloadMedia does not throw:
\* it returns success = false with the error that aggregates, in order, the
\* reason of every failed attempt of the run.
C8_FailureAggregatesReasons ==
  (pc = "dm_return" /\ ~result.success)
    => /\ outcome = "running"
       /\ IF dm.pos = 0
            THEN result.error = [head |-> "No valid file identifier found", reasons |-> <<>>]
            ELSE /\ result.error.head = "All URL formats failed"
                 /\ [k \in 1..Len(result.error.reasons) |->
                       <<result.error.reasons[k].kind, result.error.reasons[k].url>>]
                    = FailedAttempts(LogOf(i))

\* C8 witness: the candidates are exhausted and the failure carries the
\* reasons of several attempts.
C8_Witness ==
  /\ pc = "dm_return"
  /\ ~result.success
  /\ result.error.head = "All URL formats failed"
  /\ Len(result.error.reasons) > 2

\* C9: a 2xx response whose body is {"status":"error","detail":"not found"} is
\* recorded as a failure whose reason contains "not found", and the reason is
\* part of the aggregated error when the resolution is exhausted.
C9_ErrorDetailRecorded ==
  (/\ pc = "dm_return"
   /\ ~result.success
   /\ \E k \in 1..Len(log) :
        log[k].ref = i /\ log[k].kind = "fetch" /\ log[k].ok /\ log[k].body = "jsonerr")
    => \E k \in 1..Len(result.error.reasons) : result.error.reasons[k].why = "not found"

StorageUrlsOf(conv) ==
  {conv.strings[k] : k \in {n \in 1..Len(conv.strings) :
                              IsSedimentRawUrl(conv.strings[n]) \/ IsUserContentUrl(conv.strings[n])}}

Named == SelectSeq(results.files, LAMBDA f : f.ref > 0 /\ f.result.success)

\* C12 as stated: the filenames that createSuitableFilename assigns to the
\* resolved references of one batch are pairwise distinct.
C12_DistinctFilenames ==
  \A a, b \in 1..Len(Named) : a # b => Named[a].filename # Named[b].filename


(***************************************************************************)
(* The export of one conversation: handleExportClick, AuthManager and      *)
(* ConversationManager as it calls them, ChatGPTHandler.extract and         *)
(* createAndDownloadZip                                                     *)
(***************************************************************************)
\* the image element of the page that shows the generated image HEX32
EstuaryUrl == <<"https://", "chatgpt.com", "/backend-api/estuary/content?id=", FU, HEX32>>

\* a user upload that carries a name and a type
RefNamed == [RefUpload EXCEPT !.filename = <<"pic:1", ".", "png">>, !.mime_type = <<"image/png">>]
\* a user upload whose name is the first suffixed form of the name of RefNamed
RefSuffixed == [RefUpload EXCEPT !.filename = <<"pic_1", "_", "1", ".", "png">>]
\* a voice clip
RefAudio == [RefUpload EXCEPT !.type = "audio"]

\* the references extractMediaReferences can hand to the forEach of extract
ExtractPool == {RefSas, RefSediment, RefNamed, RefSuffixed, RefAudio}

\* msg.metadata.attachments of the payload
AttachmentPool == {<<>>, << [id |-> <<FD, HEX32>>, name |-> <<"pic_1", ".", "png">>] >>}

\* fileIdToName.get(id) after the loop over the attachments: an attachment is
\* stored under its id and, when the id starts with file-, under the rest
fileIdToName(attachments, id) ==
  LET hits == SelectSeq(attachments,
                LAMBDA att : att.id = id \/ (StartsWith(att.id, FD) /\ Tail(att.id) = id))
  IN IF hits = <<>> THEN NULL ELSE hits[Len(hits)].name

\* url of the forEach body of extract; NULL when the reference is skipped
\* (the extractor sets no download_url)
ExtractUrl(ref) ==
  LET first == FirstOf(<<ref.renderedUrl, ref.assetPointer>>)
      url == IF Includes(first, FSV)
               THEN <<"https://", "chatgpt.com", "/backend-api/files/">> \o
                    SplitSecond(first, FSV) \o <<"/download">>
               ELSE first
      resolved == IF StartsWith(url, SED) THEN ref.renderedUrl ELSE url
  IN IF ref.type = "audio" \/ ~StartsWith(resolved, "http") THEN NULL ELSE resolved

\* ext of the forEach body of extract
ExtractExt(mime_type) ==
  CASE mime_type = NULL -> "jpg"
    [] mime_type = <<"image/png">> -> "png"
    [] mime_type = <<"image/webp">> -> "webp"
    [] mime_type = <<"application/pdf">> -> "pdf"
    [] mime_type \in {<<"text/plain">>, <<"text/csv">>} -> "txt"
    [] mime_type = <<"application/json">> -> "json"
    [] OTHER -> "jpg"

\* baseName.replace(/[^a-z0-9_\-\.\s\(\)]/gi, "_")
SafeFileName(name) == [k \in 1..Len(name) |-> IF name[k] = "pic:1" THEN "pic_1" ELSE name[k]]

\* baseName of the forEach body of extract, before the de-duplication
BaseName(ref, index, attachments) ==
  LET lookupId == IF ref.fileId # NULL THEN ref.fileId
                  ELSE RemoveFirst(RemoveFirst(ref.assetPointer, SED), FSV)
      found == FirstOf(<<fileIdToName(attachments, lookupId),
                         IF StartsWith(lookupId, FD) \/ StartsWith(lookupId, FU)
                           THEN fileIdToName(attachments, Tail(lookupId)) ELSE NULL>>)
      fallback == FirstOf(<<ref.filename, ref.customName, <<"file_", ToString(index)>> >>)
      dotted == IF \E k \in 1..Len(fallback) : fallback[k] = "." THEN fallback
                ELSE fallback \o <<".", ExtractExt(ref.mime_type)>>
  IN SafeFileName(IF found # NULL THEN found ELSE dotted)

\* baseName with _counter inserted before its last dot
Suffixed(baseName, counter) ==
  IF LastExtension(baseName) # NULL
    THEN WithoutExtension(baseName) \o <<"_", ToString(counter), ".">> \o LastExtension(baseName)
    ELSE baseName \o <<"_", ToString(counter)>>

\* the de-duplication that tries no suffix
DeDupe_Off(baseName, usedFilenames, counter) == baseName

RECURSIVE DeDupe(_, _, _)
\* the while loop of extract: finalName after counter - 1 suffixes were tried
DeDupe(baseName, usedFilenames, counter) ==
  LET finalName == IF counter = 0 THEN baseName ELSE Suffixed(baseName, counter)
  IN IF finalName \in usedFilenames THEN DeDupe(baseName, usedFilenames, counter + 1)
     ELSE finalName


(***************************************************************************)
(* AuthManager: the cached access token.  A token and a key are sequences   *)
(* of character codes; the clock counts minutes.                            *)
(***************************************************************************)
\* sessionCache.expiry - now when a token is stored: 10 * 60 * 1000 ms
TTL == 10

\* the access tokens the session endpoint hands out
TokenPool == {<<1, 2>>, <<3, 3>>}
\* generateRandomKey()
KeyPool == {<<3>>, <<1, 2>>}

RECURSIVE Xor(_, _)
\* a ^ b
Xor(a, b) == IF a = 0 /\ b = 0 THEN 0
             ELSE (((a % 2) + (b % 2)) % 2) + (2 * Xor(a \div 2, b \div 2))

encryptToken(token, key) ==
  [k \in 1..Len(token) |-> Xor(token[k], key[((k - 1) % Len(key)) + 1])]

decryptToken(token, key) ==
  [k \in 1..Len(token) |-> Xor(token[k], key[((k - 1) % Len(key)) + 1])]

\* the test that opens getAccessToken
CacheValid(am) == am.token # NULL /\ am.expiry # 0 /\ am.now < am.expiry

\* the two assignments that cache a token acquired by a call that read the
\* clock at time now
StoreToken(am, token, now) ==
  [am EXCEPT !.token = encryptToken(token, am.tokenEncryptionKey), !.expiry = now + TTL]

AuthInit ==
  /\ authManager \in {[AuthIdle EXCEPT !.tokenEncryptionKey = k] : k \in KeyPool}
  /\ page = [hostname |-> "chatgpt.com", hasDownloads |-> TRUE, images |-> <<>>]
  /\ conversationData = ConvPlain
  /\ mediaReferences = <<>>
  /\ results = [total |-> 0, completed |-> 0, failed |-> 0, files |-> <<>>]
  /\ i = 0
  /\ pc = "auth"
  /\ outcome = "running"
  /\ dm = DmIdle
  /\ result = NoResult
  /\ log = <<>>
  /\ env = [hosts |-> [h \in Hosts |-> "down"], accepts |-> FALSE]
  /\ probe = ProbeIdle
  /\ ex = ExIdle

\* a call of getAccessToken up to its first await: it returns the cached
\* token, or asks for a new one (the background script does not answer
\* getAuthToken, so the request goes to /api/auth/session)
GetAccessToken ==
  /\ Len(authManager.calls) < MaxCalls
  /\ LET am == authManager
         call == [start |-> am.now, startSeq |-> am.seq, end |-> am.now, endSeq |-> am.seq,
                  fromCache |-> CacheValid(am),
                  stage |-> IF CacheValid(am) THEN "returned" ELSE "pending",
                  token |-> IF CacheValid(am) THEN decryptToken(am.token, am.tokenEncryptionKey)
                            ELSE NULL]
     IN authManager' = [am EXCEPT !.calls = Append(@, call), !.seq = @ + 1]
  /\ UNCHANGED <<page, conversationData, mediaReferences, results, i, pc, outcome, dm, result,
                 log, env, probe, ex>>

\* the answer of the session endpoint when a failed acquisition empties the
\* cache
SessionAnswer_ClearsOnFailure ==
  /\ \E c \in 1..Len(authManager.calls), accessToken \in TokenPool \cup {NULL} :
       /\ authManager.calls[c].stage = "pending"
       /\ LET am == authManager
              done == [am.calls[c] EXCEPT !.end = am.now, !.endSeq = am.seq,
                                          !.token = accessToken,
                                          !.stage = IF accessToken # NULL THEN "returned"
                                                    ELSE "threw"]
              stored == IF accessToken # NULL
                          THEN StoreToken(am, accessToken, am.calls[c].start)
                        ELSE [am EXCEPT !.token = NULL, !.expiry = 0]
          IN authManager' = [stored EXCEPT !.calls[c] = done, !.seq = @ + 1]
  /\ UNCHANGED <<page, conversationData, mediaReferences, results, i, pc, outcome, dm, result,
                 log, env, probe, ex>>

\* the session endpoint answers a pending call: with a token, which is
\* cached and returned, or without one, and the call throws
SessionAnswer ==
  /\ \E c \in 1..Len(authManager.calls), accessToken \in TokenPool \cup {NULL} :
       /\ authManager.calls[c].stage = "pending"
       /\ LET am == authManager
              done == [am.calls[c] EXCEPT !.end = am.now, !.endSeq = am.seq,
                                          !.token = accessToken,
                                          !.stage = IF accessToken # NULL THEN "returned"
                                                    ELSE "threw"]
              stored == IF accessToken # NULL
                          THEN StoreToken(am, accessToken, am.calls[c].start) ELSE am
          IN authManager' = [stored EXCEPT !.calls[c] = done, !.seq = @ + 1]
  /\ UNCHANGED <<page, conversationData, mediaReferences, results, i, pc, outcome, dm, result,
                 log, env, probe, ex>>

clearCachedToken ==
  /\ authManager.clears = {}
  /\ authManager' = [authManager EXCEPT !.token = NULL, !.expiry = 0,
                                        !.clears = @ \cup {authManager.seq}, !.seq = @ + 1]
  /\ UNCHANGED <<page, conversationData, mediaReferences, results, i, pc, outcome, dm, result,
                 log, env, probe, ex>>

\* time passes
Tick ==
  /\ authManager.now < MaxClock
  /\ authManager' = [authManager EXCEPT !.now = @ + TickMinutes]
  /\ UNCHANGED <<page, conversationData, mediaReferences, results, i, pc, outcome, dm, result,
                 log, env, probe, ex>>

AuthNext == GetAccessToken \/ SessionAnswer \/ clearCachedToken \/ Tick

AuthSpec == AuthInit /\ [][AuthNext]_vars

\* C19 as stated: getAccessToken returns the cached token, without a
\* request, exactly when a token was acquired less than 10 minutes before
\* the call and clearCachedToken was not called since; the token it returns
\* from the cache is the token acquired last; and the first getAccessToken
\* after clearCachedToken performs a fresh acquisition.
C19_CachedExactlyWhenFresh ==
  LET calls == authManager.calls
      Acquired(k) == ~calls[k].fromCache /\ calls[k].stage = "returned"
      Cleared(s1, s2) == \E s \in authManager.clears : s1 < s /\ s < s2
      Before(k, c) ==
        /\ Acquired(k)
        /\ calls[k].endSeq < calls[c].startSeq
        /\ ~Cleared(calls[k].endSeq, calls[c].startSeq)
      Fresh(k, c) == Before(k, c) /\ calls[c].start - calls[k].end < TTL
  IN \A c \in 1..Len(calls) :
       /\ calls[c].fromCache <=> \E k \in 1..Len(calls) : Fresh(k, c)
       /\ calls[c].fromCache
            => \E k \in 1..Len(calls) :
                 /\ Fresh(k, c)
                 /\ \A j \in 1..Len(calls) : Before(j, c) => calls[j].endSeq <= calls[k].endSeq
                 /\ calls[c].token = calls[k].token
       /\ (\E s \in authManager.clears :
             /\ s < calls[c].startSeq
             /\ \A d \in 1..Len(calls) :
                  ~(s < calls[d].startSeq /\ calls[d].startSeq < calls[c].startSeq))
            => ~calls[c].fromCache


(***************************************************************************)
(* handleExportClick on a ChatGPT page                                     *)
(***************************************************************************)
\* items createAndDownloadZip fetches at a time
BATCH_SIZE == 5

\* the longest list of references an export extracts
MaxItems == 3

\* the deepest nesting of the JSON bodies put before parseJsonForFileUrl
MaxDepth == 7

\* how the hosts of the media answer during an export
ExportBehaviours == {"down", "public", "errors", "signs", "delegates", "forbids"}

\* the media of an export are on the API host and on a storage mirror, whose
\* URLs are all signed; the answer to the dispatch of the archive is not read
ExportEnvironments ==
  {e \in [hosts : [Hosts -> ExportBehaviours], accepts : {TRUE}] :
     /\ e.hosts["files"] = "down"
     /\ e.hosts["static"] = "down"
     /\ e.hosts["mirror"] \in {"down", "public", "errors"}}

exportIdle == <<mediaReferences, results, i, pc, outcome, dm, result, log, probe>>

ExportInit ==
  /\ page \in [hostname : {"chatgpt.com"}, hasDownloads : {TRUE},
               images : {<<>>, <<EstuaryUrl>>}]
  /\ conversationData = ConvPlain
  /\ mediaReferences = <<>>
  /\ results = [total |-> 0, completed |-> 0, failed |-> 0, files |-> <<>>]
  /\ i = 0
  /\ pc = "export"
  /\ outcome = "running"
  /\ dm = DmIdle
  /\ result = NoResult
  /\ log = <<>>
  /\ env \in ExportEnvironments
  /\ probe = ProbeIdle
  /\ ex \in {[ExIdle EXCEPT !.pc = "click", !.session = s, !.conversation = c,
                            !.payload = r, !.attachments = a] :
               s \in {"token", "http", "empty"}, c \in {"data", "http"},
               r \in SeqsUpTo(ExtractPool, MaxItems), a \in AttachmentPool}
  /\ authManager \in {[AuthIdle EXCEPT !.tokenEncryptionKey = k] : k \in {<<3>>}}

\* a request of the export; item is the media item it is sent for, 0 for none
ExReq(kind, url, bearer, item) == [kind |-> kind, url |-> url, bearer |-> bearer, item |-> item]

\* handleExportClick up to the token: AuthManager.getAccessToken finds the
\* cache empty, gets no answer to getAuthToken and asks /api/auth/session; a
\* failure is thrown to the catch of handleExportClick
ClickExport ==
  /\ ex.pc = "click"
  /\ LET accessToken == IF ex.session = "token" THEN <<1, 2>> ELSE NULL
         message == IF ex.session = "http"
                      THEN <<"Authentication failed with status ", "401">>
                      ELSE <<"No access token found in response">>
     IN /\ ex' = [ex EXCEPT
                    !.reqs = @ \o <<ExReq("getAuthToken", NULL, FALSE, 0),
                                    ExReq("session",
                                          <<"https://", page.hostname, "/api/auth/session">>,
                                          FALSE, 0)>>,
                    !.authToken = accessToken,
                    !.status = IF accessToken # NULL THEN <<"Initializing...">>
                               ELSE <<"Error: ">> \o message,
                    !.pc = IF accessToken # NULL THEN "conversation" ELSE "failed"]
        /\ authManager' = IF accessToken # NULL
                            THEN StoreToken(authManager, accessToken, authManager.now)
                            ELSE authManager
  /\ UNCHANGED <<page, conversationData, env>>
  /\ UNCHANGED exportIdle

\* getConversation without the test of response.ok
FetchConversation_IgnoresStatus ==
  /\ ex.pc = "conversation"
  /\ ex' = [ex EXCEPT !.refs = findRenderedImages(ex.payload, page.images),
                      !.status = <<"Analyzing media references...">>,
                      !.pc = "extract"]
  /\ UNCHANGED <<page, conversationData, env, authManager>>
  /\ UNCHANGED exportIdle

\* ChatGPTHandler.extract up to the references: getConversation takes the
\* token from the cache and fetches the conversation with it; a status that
\* is not ok is thrown through extract to the catch of handleExportClick
FetchConversation ==
  /\ ex.pc = "conversation"
  /\ CacheValid(authManager)
  /\ LET token == decryptToken(authManager.token, authManager.tokenEncryptionKey)
         asked == ExReq("conversation",
                        <<"https://", page.hostname, "/backend-api/conversation/">>,
                        token # NULL, 0)
     IN ex' = IF ex.conversation = "data"
                THEN [ex EXCEPT !.reqs = Append(@, asked),
                                !.refs = findRenderedImages(ex.payload, page.images),
                                !.status = <<"Analyzing media references...">>,
                                !.pc = "extract"]
                ELSE [ex EXCEPT !.reqs = Append(@, asked),
                                !.status = <<"Error: ", "Failed to fetch conversation: ", "404">>,
                                !.pc = "failed"]
  /\ UNCHANGED <<page, conversationData, env, authManager>>
  /\ UNCHANGED exportIdle

\* one pass of refs.forEach in extract
ExtractRef ==
  /\ ex.pc = "extract"
  /\ ex.index < Len(ex.refs)
  /\ LET ref == ex.refs[ex.index + 1]
         url == ExtractUrl(ref)
         finalName == DeDupe(BaseName(ref, ex.index, ex.attachments), ex.usedFilenames, 0)
     IN ex' = IF url = NULL THEN [ex EXCEPT !.index = @ + 1]
              ELSE [ex EXCEPT !.index = @ + 1,
                              !.usedFilenames = @ \cup {finalName},
                              !.media = Append(@, [url |-> url, filename |-> finalName,
                                                   originalRef |-> ref])]
  /\ UNCHANGED <<page, conversationData, env, authManager>>
  /\ UNCHANGED exportIdle

\* extract returns and createAndDownloadZip (window.JSZip is loaded with the
\* content script) runs up to its first await: conversation.json is added
\* and the callbacks of the first batch start, each reporting its filename
StartZip ==
  /\ ex.pc = "extract"
  /\ ex.index = Len(ex.refs)
  /\ ex' = [ex EXCEPT
              !.zip = {<<"conversation.json">>},
              !.stage = [k \in 1..Len(ex.media) |-> IF k <= BATCH_SIZE THEN "direct" ELSE "waiting"],
              !.batch = 0,
              !.status = IF ex.media = <<>> THEN <<"Generating Zip file...">>
                         ELSE <<"Fetching: ">> \o
                              ex.media[IF Len(ex.media) < BATCH_SIZE THEN Len(ex.media)
                                       ELSE BATCH_SIZE].filename,
              !.pc = IF ex.media = <<>> THEN "generate" ELSE "items"]
  /\ UNCHANGED <<page, conversationData, env, authManager>>
  /\ UNCHANGED exportIdle

\* item.url.includes("chatgpt.com/backend-api")
IsBackendApi(url) ==
  \E k \in 1..(Len(url) - 1) :
    /\ url[k] = "chatgpt.com"
    /\ url[k + 1] \in {"/backend-api/files/", "/backend-api/estuary/content?id="}

\* the validation of createAndDownloadZip rejects the blob: its text starts
\* with { and holds "error" or "detail" (the modelled bodies are shorter than
\* 2000 bytes)
HasErrorSignature(body, url) ==
  LET json == BodyJson(body, url)
  IN /\ At(BodyBytes(body), 0) = 123
     /\ \E k \in 1..Len(json.kids) :
          \/ json.kids[k].k \in {"error", "detail"}
          \/ json.kids[k].v = Str(<<"error">>)

\* the end of the callback of item k: a blob that passes the validation is
\* added to the media folder of the archive; archived keeps the status of
\* the response the blob was read from
Settle(e, k, body, status) ==
  IF body # "none" /\ ~HasErrorSignature(body, e.media[k].url)
    THEN [e EXCEPT !.stage[k] = "settled",
                   !.zip = @ \cup {<<"media/">> \o e.media[k].filename},
                   !.archived = Append(@, [item |-> k, status |-> status])]
    ELSE [e EXCEPT !.stage[k] = "settled"]

\* the direct fetch of the callback of item k, with the second fetch of a
\* two-step download; a blob ends the callback, no blob leaves it to the
\* background fetch
ItemDirectFetch ==
  /\ ex.pc = "items"
  /\ \E k \in 1..Len(ex.media) :
       /\ ex.stage[k] = "direct"
       /\ LET url == ex.media[k].url
              forceBackground == Includes(url, "googleusercontent.com")
                                   \/ Includes(url, "anthropic.com")
              bearer == ex.authToken # NULL /\ IsBackendApi(url)
              first == FetchAnswer(url, bearer)
              isJson == first.status # 0 /\ first.ctype = <<"application/json">>
              json == BodyJson(first.body, url)
              twoStep == /\ isJson
                         /\ Get(json, "status") = Str(<<"success">>)
                         /\ Truthy(Get(json, "download_url"))
              realUrl == UrlOf(Get(json, "download_url"))
              response == IF twoStep THEN FetchAnswer(realUrl, FALSE) ELSE first
              threw == \/ first.status = 0
                       \/ isJson /\ json = NOJSON
                       \/ /\ isJson
                          /\ ~twoStep
                          /\ Get(json, "status") = Str(<<"error">>) \/ Truthy(Get(json, "detail"))
                       \/ response.status # 200
              asked == <<ExReq("fetch", url, bearer, k)>> \o
                       (IF twoStep THEN <<ExReq("fetch", realUrl, FALSE, k)>> ELSE <<>>)
          IN IF forceBackground \/ ~StartsWith(url, "http")
               THEN ex' = [ex EXCEPT !.stage[k] = "background"]
             ELSE IF threw
               THEN ex' = [ex EXCEPT !.stage[k] = "background", !.reqs = @ \o asked]
             ELSE ex' = Settle([ex EXCEPT !.reqs = @ \o asked], k, response.body,
                               response.status)
  /\ UNCHANGED <<page, conversationData, env, authManager>>
  /\ UNCHANGED exportIdle

\* the background fetch of the callback of item k: the listener fetches the
\* URL without a token and answers with the body of any response, or with
\* success false when fetch rejects
ItemBackgroundFetch ==
  /\ ex.pc = "items"
  /\ \E k \in 1..Len(ex.media) :
       /\ ex.stage[k] = "background"
       /\ LET url == ex.media[k].url
              answer == IF "fetchBlobBase64" \in BackgroundHandles
                          THEN FetchAnswer(url, FALSE) ELSE NetErr
              body == IF answer.status = 0 THEN "none" ELSE answer.body
          IN ex' = Settle([ex EXCEPT !.reqs = Append(@, ExReq("fetchBlobBase64", url, FALSE, k))],
                          k, body, answer.status)
  /\ UNCHANGED <<page, conversationData, env, authManager>>
  /\ UNCHANGED exportIdle

\* the loop over the batches without the await of Promise.all
ZipBatch_NotAwaited ==
  /\ ex.pc = "items"
  /\ ex' = [ex EXCEPT !.status = <<"Generating Zip file...">>, !.pc = "generate"]
  /\ UNCHANGED <<page, conversationData, env, authManager>>
  /\ UNCHANGED exportIdle

\* the loop over the batches when a batch is left before its callbacks ended
ZipBatch_NoBarrier ==
  /\ ex.pc = "items"
  /\ ex' = IF \E k \in 1..Len(ex.media) : ex.stage[k] = "waiting"
             THEN [ex EXCEPT !.batch = @ + BATCH_SIZE,
                             !.stage = [k \in 1..Len(ex.media) |->
                                          IF ex.stage[k] = "waiting"
                                               /\ k <= ex.batch + 2 * BATCH_SIZE
                                            THEN "direct" ELSE ex.stage[k]]]
             ELSE [ex EXCEPT !.status = <<"Generating Zip file...">>, !.pc = "generate"]
  /\ UNCHANGED <<page, conversationData, env, authManager>>
  /\ UNCHANGED exportIdle

\* Promise.all of a batch resolves: the next batch starts, or after the last
\* one the archive is generated
ZipBatch ==
  /\ ex.pc = "items"
  /\ \A k \in 1..Len(ex.media) : ex.stage[k] \in {"settled", "waiting"}
  /\ ex' = IF \E k \in 1..Len(ex.media) : ex.stage[k] = "waiting"
             THEN [ex EXCEPT !.batch = @ + BATCH_SIZE,
                             !.stage = [k \in 1..Len(ex.media) |->
                                          IF ex.stage[k] = "waiting"
                                               /\ k <= ex.batch + 2 * BATCH_SIZE
                                            THEN "direct" ELSE ex.stage[k]]]
             ELSE [ex EXCEPT !.status = <<"Generating Zip file...">>, !.pc = "generate"]
  /\ UNCHANGED <<page, conversationData, env, authManager>>
  /\ UNCHANGED exportIdle

\* zip.generateAsync resolves: downloadBlob dispatches the archive
FinishZip ==
  /\ ex.pc = "generate"
  /\ ex' = [ex EXCEPT !.reqs = Append(@, ExReq("directDownload", <<"blob:">>, FALSE, 0)),
                      !.saves = @ + 1,
                      !.status = <<"Done!">>,
                      !.pc = "finished"]
  /\ UNCHANGED <<page, conversationData, env, authManager>>
  /\ UNCHANGED exportIdle

ExportNext ==
  \/ ClickExport
  \/ FetchConversation
  \/ ExtractRef
  \/ StartZip
  \/ ItemDirectFetch
  \/ ItemBackgroundFetch
  \/ ZipBatch
  \/ FinishZip

ExportSpec == ExportInit /\ [][ExportNext]_vars


(***************************************************************************)
(* Properties of the export                                                *)
(***************************************************************************)
\* the pass of refs.forEach that is about to run pushes a media item
Pushes == ex.pc = "extract" /\ Len(ex'.media) = Len(ex.media) + 1

\* C13: in ChatGPTHandler.extract the filenames of the media list are
\* pairwise distinct; a pass that finds its base name in usedFilenames
\* chooses the base name with _k before the extension for the smallest
\* k >= 1 whose suffixed name is unused, a pass that does not find it keeps
\* the base name, and every chosen name is added to usedFilenames.
C13_ExtractNamesDistinct ==
  /\ [](\A a, b \in 1..Len(ex.media) :
          ex.media[a].filename = ex.media[b].filename => a = b)
  /\ [](ex.usedFilenames = {ex.media[a].filename : a \in 1..Len(ex.media)})
  /\ [][Pushes =>
          LET baseName == BaseName(ex.refs[ex.index + 1], ex.index, ex.attachments)
              finalName == ex'.media[Len(ex'.media)].filename
          IN IF baseName \notin ex.usedFilenames THEN finalName = baseName
             ELSE \E k \in 1..(Cardinality(ex.usedFilenames) + 1) :
                    /\ finalName = Suffixed(baseName, k)
                    /\ finalName \notin ex.usedFilenames
                    /\ \A j \in 1..(k - 1) : Suffixed(baseName, j) \in ex.usedFilenames]_vars

\* two items of the media list had the same base name, and the second one
\* carries the suffix _1
C13_Witness ==
  /\ Len(ex.media) = 2
  /\ ex.media[1].originalRef = ex.media[2].originalRef
  /\ ex.media[1].originalRef = RefNamed
  /\ ex.media[2].filename = Suffixed(ex.media[1].filename, 1)

\* the third item found its base name and the name with _1 in use and
\* carries the suffix _2
C13_WitnessSecondSuffix ==
  /\ Len(ex.media) = 3
  /\ ex.media[3].originalRef = RefNamed
  /\ ex.media[3].filename = Suffixed(SafeFileName(RefNamed.filename), 2)

\* C14 as stated: every filename given to a generated-image (sediment://)
\* reference ends in .png, by createSuitableFilename for any claimed content
\* type and by extract for a sediment reference whose renderedUrl was found.
C14_SedimentAlwaysPng ==
  \A k \in 1..Len(ex.media) :
    LET ref == ex.media[k].originalRef
    IN StartsWith(ref.assetPointer, SED)
         => /\ \A contentType \in ClaimedTypes :
                 LastExtension(createSuitableFilename(ref, contentType)) = <<"png">>
            /\ LastExtension(ex.media[k].filename) = <<"png">>

\* C15 as stated: the only request of an export that carries the bearer
\* token is the conversation fetch of getConversation; no media, metadata or
\* redirect request carries it.
C15_TokenOnlyForConversation ==
  \A k \in 1..Len(ex.reqs) : ex.reqs[k].bearer => ex.reqs[k].kind = "conversation"

\* the path of item k in the archive
MediaPath(k) == <<"media/">> \o ex.media[k].filename

\* C16 as stated: after createAndDownloadZip every media item of the export
\* has its file or an explanatory text entry in media/, and the rest of the
\* data (conversation.json) is archived.
C16_FileOrExplanation ==
  ex.pc = "finished" =>
    /\ <<"conversation.json">> \in ex.zip
    /\ \A k \in 1..Len(ex.media) :
         \/ MediaPath(k) \in ex.zip
         \/ \E entry \in ex.zip :
              /\ StartsWith(entry, "media/")
              /\ \A j \in 1..Len(ex.media) : entry # MediaPath(j)

\* the token acquisition of the export has failed
TokenFailed == ex.pc # "click" /\ ex.session # "token"

\* the conversation fetch of the export has failed
ConversationFailed ==
  ex.pc \notin {"click", "conversation"} /\ ex.session = "token" /\ ex.conversation # "data"

\* C17: when the token acquisition or the conversation fetch of
\* handleExportClick fails, the export is aborted: createAndDownloadZip is
\* never called (the archive stays empty, no media item is fetched), no
\* archive is saved, and the status overlay shows "Error: " and the message.
C17_FatalFailureAborts ==
  (TokenFailed \/ ConversationFailed) =>
    /\ ex.pc = "failed"
    /\ ex.zip = {} /\ ex.stage = <<>> /\ ex.media = <<>>
    /\ ex.saves = 0
    /\ \A k \in 1..Len(ex.reqs) : ex.reqs[k].kind \in {"getAuthToken", "session", "conversation"}
    /\ Len(ex.status) > 1 /\ ex.status[1] = "Error: "
    /\ TokenFailed => \A k \in 1..Len(ex.reqs) : ex.reqs[k].kind # "conversation"

\* the conversation fetch of an export whose payload held references failed
C17_Witness ==
  /\ ConversationFailed
  /\ ex.payload # <<>>
  /\ ex.status = <<"Error: ", "Failed to fetch conversation: ", "404">>

\* the exports whose token acquisition and conversation fetch succeed, on a
\* conversation of at most MaxRefs references without attachments
ZipInit ==
  /\ ExportInit
  /\ ex.session = "token" /\ ex.conversation = "data"
  /\ Len(ex.payload) <= MaxRefs
  /\ ex.attachments = <<>>
  /\ page.images = <<>>

\* every request of the export is answered and every resolved promise runs
\* its continuation
ExportFair == ZipInit /\ [][ExportNext]_vars /\ WF_vars(ExportNext)

\* every media item of the export has settled
AllSettled == \A k \in 1..Len(ex.media) : ex.stage[k] = "settled"

FileIds ==
  {scheme \o prefix \o <<id>> :
     scheme \in {<<>>, <<SED>>, <<FSV>>},
     prefix \in {<<>>, <<FU>>, <<FD>>},
     id \in {HEX32, UUID, "XyZ", "q7"}}

GeneratorInit ==
  /\ probe \in [stage : {"drawn"}, fileId : FileIds, domain : domains, urls : {<<>>}]
  /\ page = [hostname |-> "chatgpt.com", hasDownloads |-> TRUE, images |-> <<>>]
  /\ conversationData = ConvPlain
  /\ mediaReferences = <<>>
  /\ results = [total |-> 0, completed |-> 0, failed |-> 0, files |-> <<>>]
  /\ i = 0
  /\ pc = "generator"
  /\ outcome = "running"
  /\ dm = DmIdle
  /\ result = NoResult
  /\ log = <<>>
  /\ env = [hosts |-> [h \in Hosts |-> "down"], accepts |-> FALSE]
  /\ ex = ExIdle
  /\ authManager = AuthIdle

\* one call of generateAlternativeUrls(fileId, domain)
Generate ==
  /\ probe.stage = "drawn"
  /\ probe' = [probe EXCEPT !.stage = "generated",
                            !.urls = generateAlternativeUrls(probe.fileId, probe.domain)]
  /\ UNCHANGED <<page, conversationData, mediaReferences, results, i, pc, outcome, dm, result,
                 log, env, ex, authManager>>

GeneratorNext == Generate

GeneratorSpec == GeneratorInit /\ [][GeneratorNext]_vars

\* C20 as stated: for every file identifier and domain the list of
\* generateAlternativeUrls begins with the storage-mirror URLs, one per
\* configured region in configuration order, followed by the API endpoints
\* of the category, followed by the CDN URLs.
C20_MirrorsThenApiThenCdn ==
  probe.stage = "generated" =>
    LET urls == probe.urls
        n == Len(Regions)
    IN /\ Len(urls) >= n
       /\ \A k \in 1..n : HostOf(urls[k]) = "mirror" /\ urls[k][3] = Regions[k]
       /\ \E m \in n..Len(urls) :
            /\ \A k \in (n + 1)..m : HostOf(urls[k]) = "api"
            /\ \A k \in (m + 1)..Len(urls) : HostOf(urls[k]) \in {"files", "static"}


(***************************************************************************)
(* Properties of the candidate worklist of downloadMedia                   *)
(***************************************************************************)
\* the priority tier of a candidate: 1 for a storage mirror, 2 for an API
\* endpoint of the provider, 3 for a CDN path
Tier(url) ==
  CASE HostOf(url) = "mirror" -> 1
    [] HostOf(url) = "api" -> 2
    [] OTHER -> 3

\* C21 as stated: in the worklist urlsToTry that downloadMedia builds, every
\* storage-mirror URL comes before every API endpoint URL, which comes before
\* every CDN URL, so that the candidate loop attempts them in that order.
C21_WorklistByTier ==
  pc = "bg_download" =>
    \A a \in 1..(Len(dm.urlsToTry) - 1) : Tier(dm.urlsToTry[a]) <= Tier(dm.urlsToTry[a + 1])

\* the requests the step adds to the log
NewRequests == SubSeq(log', Len(log) + 1, Len(log'))

\* C22: for each candidate URL the background fetch is sent first, the
\* authenticated direct fetch only after the background fetch gave neither
\* a success nor a redirect, and a fetch without the token only after a 401
\* for a URL on cdn.oaistatic.com or files.oaiusercontent.com.
C22_StrategyOrder ==
  [][pc = "candidates" =>
       LET viaBackground == BackgroundFetchResult(Url)
           settled == viaBackground.success \/ viaBackground.redirectUrl # NULL
       IN /\ Len(NewRequests) \in 1..3
          /\ \A k \in 1..Len(NewRequests) : NewRequests[k].url = Url
          /\ NewRequests[1].kind = "fetchMedia"
          /\ settled <=> Len(NewRequests) = 1
          /\ Len(NewRequests) >= 2 => NewRequests[2].kind = "fetch" /\ NewRequests[2].auth
          /\ Len(NewRequests) = 3 =>
               /\ NewRequests[3].kind = "fetch" /\ ~NewRequests[3].auth
               /\ HostOf(Url) \in {"files", "static"}
               /\ ~NewRequests[2].ok]_vars

\* a candidate on a CDN host was fetched without the token after its
\* background fetch and its authenticated fetch had failed
C22_Witness ==
  \E a \in 3..Len(log) :
    /\ log[a].kind = "fetch" /\ ~log[a].auth
    /\ log[a - 1].kind = "fetch" /\ log[a - 1].auth /\ log[a - 1].url = log[a].url
    /\ log[a - 2].kind = "fetchMedia" /\ log[a - 2].url = log[a].url

\* C23 as stated: a URL discovered during the resolution, a redirect URL of
\* a candidate attempt or a URL of fetchMetadataForUrls, is added only at
\* the end of the worklist: the candidates already in it keep their places
\* in front of it.
C23_DiscoveredAtEnd ==
  [][(dm.urlsToTry # <<>> /\ dm'.urlsToTry # <<>> /\ dm'.urlsToTry # dm.urlsToTry) =>
       /\ Len(dm'.urlsToTry) > Len(dm.urlsToTry)
       /\ SubSeq(dm'.urlsToTry, 1, Len(dm.urlsToTry)) = dm.urlsToTry]_vars


(***************************************************************************)
(* downloadAllMedia over at most one reference                             *)
(***************************************************************************)
\* a generated-image reference whose pointer is empty after its scheme
RefEmptyPointer == MediaRef("image", <<SED>>, NULL, NULL, NULL, NULL)

SingleInit ==
  /\ page \in [hostname : domains, hasDownloads : BOOLEAN, images : {<<>>}]
  /\ conversationData \in ConvPool
  /\ mediaReferences \in SeqsUpTo(RefPool \cup {RefEmptyPointer}, 1)
  /\ results = [total |-> 0, completed |-> 0, failed |-> 0, files |-> <<>>]
  /\ i = 0
  /\ pc = "start"
  /\ outcome = "running"
  /\ dm = DmIdle
  /\ result = NoResult
  /\ log = <<>>
  /\ env \in Environments
  /\ probe = ProbeIdle
  /\ ex = ExIdle
  /\ authManager = AuthIdle

SingleSpec == SingleInit /\ [][Next]_vars

\* no non-empty identifier can be derived from the reference
NoIdentifier(ref) ==
  LET id == FirstOf(<<ref.assetPointer, ref.fileId, ref.canvasId>>)
  IN id = NULL \/ RemoveFirst(RemoveFirst(id, SED), FSV) = <<>>

\* C24 as stated: for a reference without a non-empty identifier
\* downloadMedia sends no request, generates no candidates and returns
\* success = false.
C24_EmptyIdShortCircuits ==
  \A k \in 1..Len(mediaReferences) :
    NoIdentifier(mediaReferences[k]) =>
      /\ \A a \in 1..Len(log) : log[a].ref # k
      /\ i = k => dm.genCalls = 0 /\ dm.urlsToTry = <<>>
      /\ (i = k /\ pc = "dm_return") => ~result.success


(***************************************************************************)
(* Properties of the archive of an export                                  *)
(***************************************************************************)
\* C25 as stated: a response with a non-2xx status is never accepted as
\* media; in particular no body that the background fetchBlobBase64 handler
\* read for createAndDownloadZip from a non-2xx response is added to the
\* archive.
C25_Non2xxNeverArchived ==
  \A a \in 1..Len(ex.archived) : ex.archived[a].status \in 200..299


(***************************************************************************)
(* MediaUrlGenerator.parseJsonForFileUrl on its own                        *)
(***************************************************************************)
\* the strings a JSON body holds: a signed storage-mirror URL, a CDN URL,
\* a URL on another host, and a text
MirrorValue == SasUrl(UUID, "S0")
CdnValue == FilesCdn("/file-", <<"q7">>)
ForeignValue == <<"https://", "example.com", "/a.png">>
TextValue == <<"not found">>
LeafValues == {MirrorValue, CdnValue, ForeignValue, TextValue}

\* the URL of a well-known redirect field
RedirectValue == <<"https://", "example.com", "/download">>

\* the well-known fields a body starts with: none, a top-level
\* download_url, or a url nested one level in data
TopFields(top) ==
  CASE top = "download_url" -> <<KV("download_url", Str(RedirectValue))>>
    [] top = "data.url" -> <<KV("data", Obj(<<KV("url", Str(RedirectValue))>>))>>
    [] OTHER -> <<>>

RECURSIVE Nest(_, _)
\* the members of an object that holds member kv below n further objects
Nest(n, kv) == IF n = 0 THEN <<kv>> ELSE <<KV("node", Obj(Nest(n - 1, kv)))>>

\* the parsed body: the well-known fields, then a string member n objects
\* below the root
Doc(p) == Obj(TopFields(p.top) \o Nest(p.n, KV(p.key, Str(p.value))))

ParserInit ==
  /\ probe \in [stage : {"drawn"}, top : {"none", "download_url", "data.url"},
                n : 0..MaxDepth, key : {"note", "image_url"}, value : LeafValues,
                url : {NULL}]
  /\ page = [hostname |-> "chatgpt.com", hasDownloads |-> TRUE, images |-> <<>>]
  /\ conversationData = ConvPlain
  /\ mediaReferences = <<>>
  /\ results = [total |-> 0, completed |-> 0, failed |-> 0, files |-> <<>>]
  /\ i = 0
  /\ pc = "parser"
  /\ outcome = "running"
  /\ dm = DmIdle
  /\ result = NoResult
  /\ log = <<>>
  /\ env = [hosts |-> [h \in Hosts |-> "down"], accepts |-> FALSE]
  /\ ex = ExIdle
  /\ authManager = AuthIdle

\* one call of parseJsonForFileUrl(jsonData)
Parse ==
  /\ probe.stage = "drawn"
  /\ probe' = [probe EXCEPT !.stage = "parsed", !.url = parseJsonForFileUrl(Doc(probe))]
  /\ UNCHANGED <<page, conversationData, mediaReferences, results, i, pc, outcome, dm, result,
                 log, env, ex, authManager>>

ParserNext == Parse

ParserSpec == ParserInit /\ [][ParserNext]_vars

\* the string matches a known storage-host pattern
IsStorageUrl(s) == IsHttpUrl(s) /\ HostOf(s) \in {"mirror", "files", "static"}

\* C26 as stated: parseJsonForFileUrl never returns a URL taken from a
\* string field nested more than 5 levels below the root, and a URL found by
\* the recursive scan matches a known storage-host pattern.
C26_ScanBoundedAndStorageOnly ==
  (probe.stage = "parsed" /\ probe.url = probe.value) =>
    /\ probe.n <= 5
    /\ (probe.top = "none" /\ probe.n >= 1) => IsStorageUrl(probe.url)

\* C27 as stated: a well-known redirect field at the top level wins over a
\* field nested one level, which wins over any URL found by the recursive
\* scan: a body with a top-level download_url (or a data.url) and a more
\* deeply nested storage-mirror URL gives the download_url (the data.url).
C27_FieldPrecedence ==
  (probe.stage = "parsed" /\ probe.top # "none" /\ probe.n >= 2) => probe.url = RedirectValue


(***************************************************************************)
(* Properties of the references and of their filenames                     *)
(***************************************************************************)
\* C28 as stated: downloadAllMedia changes no field of a reference other
\* than renderedUrl (type, assetPointer, fileId, title, customName stay as
\* they were handed in).
C28_OnlyRenderedUrlChanges ==
  [][/\ Len(mediaReferences') >= Len(mediaReferences)
     /\ \A k \in 1..Len(mediaReferences) :
          [mediaReferences'[k] EXCEPT !.renderedUrl = mediaReferences[k].renderedUrl]
            = mediaReferences[k]]_vars

(***************************************************************************)
(* FileUtils.getAppropriateFileExtension on its own                        *)
(***************************************************************************)
\* the arguments of a call: the type of the reference, the confirmed
\* content type, the original filename and the format hint
ExtensionInputs ==
  [stage : {"drawn"},
   mediaType : {"image", "audio", "video", "file", "canvas", "document"},
   mimeType : {NULL, <<"image/png">>, <<"image/jpeg">>, <<"image/gif">>, <<"image/webp">>,
               <<"audio/mpeg">>, <<"application/pdf">>, <<"application/json">>,
               <<"application/octet-stream">>},
   filename : {NULL, <<"notes">>, <<"photo", ".", "gif">>},
   format : {NULL, <<"webp">>},
   ext : {NULL}]

ExtensionInit ==
  /\ probe \in ExtensionInputs
  /\ page = [hostname |-> "chatgpt.com", hasDownloads |-> TRUE, images |-> <<>>]
  /\ conversationData = ConvPlain
  /\ mediaReferences = <<>>
  /\ results = [total |-> 0, completed |-> 0, failed |-> 0, files |-> <<>>]
  /\ i = 0
  /\ pc = "extension"
  /\ outcome = "running"
  /\ dm = DmIdle
  /\ result = NoResult
  /\ log = <<>>
  /\ env = [hosts |-> [h \in Hosts |-> "down"], accepts |-> FALSE]
  /\ ex = ExIdle
  /\ authManager = AuthIdle

\* one call of getAppropriateFileExtension(mediaType, mimeType, filename, format)
ChooseExtension ==
  /\ probe.stage = "drawn"
  /\ probe' = [probe EXCEPT !.stage = "chosen",
                            !.ext = getAppropriateFileExtension(probe.mediaType, probe.mimeType,
                                                                probe.filename, probe.format)]
  /\ UNCHANGED <<page, conversationData, mediaReferences, results, i, pc, outcome, dm, result,
                 log, env, ex, authManager>>

ExtensionNext == ChooseExtension

ExtensionSpec == ExtensionInit /\ [][ExtensionNext]_vars

\* C29 as stated: the extension is the format hint, else the extension of
\* the original filename, else the entry of the MIME-type table, else the
\* default of the category, else 'bin'; in particular a reference of type
\* image without format or filename whose content type is image/gif or
\* image/webp gets gif or webp.
C29_ExtensionByPriority ==
  probe.stage = "chosen" =>
    /\ probe.ext =
         (IF probe.format # NULL THEN probe.format
          ELSE IF LastExtension(probe.filename) # NULL THEN LastExtension(probe.filename)
          ELSE IF fileTypes(probe.mimeType) # NULL THEN fileTypes(probe.mimeType)
          ELSE IF defaultFileTypes(probe.mediaType) # NULL
            THEN defaultFileTypes(probe.mediaType)
          ELSE <<"bin">>)
    /\ (/\ probe.mediaType = "image"
        /\ probe.format = NULL
        /\ probe.filename = NULL
        /\ probe.mimeType \in {<<"image/gif">>, <<"image/webp">>})
         => probe.ext = fileTypes(probe.mimeType)

(***************************************************************************)
(* FileUtils.createSuitableFilename on its own                             *)
(***************************************************************************)
\* the length of the longest hint, filename or id of a reference
MaxNameLen == 250

RECURSIVE Filler(_)
\* a word of n characters
Filler(n) ==
  IF n = 1 THEN "a"
  ELSE LET half == Filler(n \div 2)
       IN IF n % 2 = 0 THEN half \o half ELSE half \o half \o "a"

LongName == <<Filler(MaxNameLen)>>

\* the references a filename is built for: with and without a pointer to a
\* generated image, each hint absent, short or long
FilenameInputs ==
  [stage : {"drawn"},
   mediaRef : {[MediaRef(type, assetPointer, fileId, NULL, customName, title)
                  EXCEPT !.filename = filename] :
                 type \in {"image", "file"},
                 assetPointer \in {NULL, <<SED, FU, HEX32>>, <<SED>> \o LongName},
                 fileId \in {NULL, <<"img_", "k1">>, LongName},
                 customName \in {NULL, <<"dalle_", UUID>>, LongName},
                 title \in {NULL, <<"A red fox">>, LongName},
                 filename \in {NULL, <<"photo", ".", "gif">>, LongName \o <<".", "png">>}},
   contentType : {NULL, <<"image/png">>, <<"application/pdf">>},
   name : {NULL}]

FilenameInit ==
  /\ probe \in FilenameInputs
  /\ page = [hostname |-> "chatgpt.com", hasDownloads |-> TRUE, images |-> <<>>]
  /\ conversationData = ConvPlain
  /\ mediaReferences = <<>>
  /\ results = [total |-> 0, completed |-> 0, failed |-> 0, files |-> <<>>]
  /\ i = 0
  /\ pc = "filename"
  /\ outcome = "running"
  /\ dm = DmIdle
  /\ result = NoResult
  /\ log = <<>>
  /\ env = [hosts |-> [h \in Hosts |-> "down"], accepts |-> FALSE]
  /\ ex = ExIdle
  /\ authManager = AuthIdle

\* one call of createSuitableFilename(mediaRef, contentType)
NameFile ==
  /\ probe.stage = "drawn"
  /\ probe' = [probe EXCEPT !.stage = "named",
                            !.name = createSuitableFilename(probe.mediaRef, probe.contentType)]
  /\ UNCHANGED <<page, conversationData, mediaReferences, results, i, pc, outcome, dm, result,
                 log, env, ex, authManager>>

FilenameNext == NameFile

FilenameSpec == FilenameInit /\ [][FilenameNext]_vars

\* C30 as stated: the part of the returned filename before its final
\* extension has at most 200 characters for a reference to a generated
\* image (sediment://) and at most 50 characters for any other reference,
\* however long the hints, filenames and ids are.
C30_BaseNameBounded ==
  probe.stage = "named" =>
    Chars(WithoutExtension(probe.name))
      <= (IF IsSediment(probe.mediaRef) THEN 200 ELSE maxBaseNameLength)

(***************************************************************************)
(* createSuitableFilename on names with other characters                   *)
(***************************************************************************)
\* references whose title, custom name, filename or id holds spaces,
\* brackets, a colon
UnsafeInputs ==
  [stage : {"drawn"},
   mediaRef : {[MediaRef(type, assetPointer, fileId, NULL, customName, title)
                  EXCEPT !.filename = filename] :
                 type \in {"image", "file"},
                 assetPointer \in {NULL, <<SED, FU, HEX32>>},
                 fileId \in {NULL, <<"img_", "k1">>, <<"id:7">>},
                 customName \in {NULL, <<"dalle_", UUID>>, <<"My pic (1)">>},
                 title \in {NULL, <<"A red fox">>},
                 filename \in {NULL, <<"my report", ".", "pdf">>, <<"photo 1", ".", "png">>}},
   contentType : {NULL, <<"image/png">>, <<"application/pdf">>},
   name : {NULL}]

SafeNameInit ==
  /\ probe \in UnsafeInputs
  /\ page = [hostname |-> "chatgpt.com", hasDownloads |-> TRUE, images |-> <<>>]
  /\ conversationData = ConvPlain
  /\ mediaReferences = <<>>
  /\ results = [total |-> 0, completed |-> 0, failed |-> 0, files |-> <<>>]
  /\ i = 0
  /\ pc = "filename"
  /\ outcome = "running"
  /\ dm = DmIdle
  /\ result = NoResult
  /\ log = <<>>
  /\ env = [hosts |-> [h \in Hosts |-> "down"], accepts |-> FALSE]
  /\ ex = ExIdle
  /\ authManager = AuthIdle

SafeNameSpec == SafeNameInit /\ [][FilenameNext]_vars

\* C31 as stated: apart from the dot before the extension, the base name of
\* a filename returned by createSuitableFilename holds only characters of
\* [A-Za-z0-9_-], whatever the title, customName, filename or id holds.
C31_BaseNameFilesystemSafe ==
  probe.stage = "named" =>
    Sanitized(WithoutExtension(probe.name)) = WithoutExtension(probe.name)


(***************************************************************************)
(* Properties of the tally of downloadAllMedia                             *)
(***************************************************************************)
\* C32: at the head of every iteration of the download loop over a
\* non-empty list completed + failed is the number of references already
\* processed and the length of results.files; completed and failed never
\* decrease; the tally returned for a non-empty list has
\* completed + failed = total = number of references.
C32_TallyInvariant ==
  /\ [](/\ (pc = "loop" /\ Len(mediaReferences) > 0) =>
             /\ results.completed + results.failed = i - 1
             /\ Len(results.files) = i - 1
        /\ (outcome = "returned" /\ Len(mediaReferences) > 0) =>
             /\ results.completed + results.failed = results.total
             /\ results.total = Len(mediaReferences))
  /\ [][/\ results'.completed >= results.completed
        /\ results'.failed >= results.failed]_vars

\* a tally returned for two references, one completed and one failed
C32_Witness ==
  /\ outcome = "returned"
  /\ Len(mediaReferences) >= 2
  /\ results.completed >= 1
  /\ results.failed >= 1


(***************************************************************************)
(* Properties of the messages to the background context                    *)
(***************************************************************************)
\* the request actions page-side code sends with chrome.runtime.sendMessage
SentActions == {"directDownload", "downloadMedia", "fetchBlobBase64", "fetchMedia",
                "getAuthToken"}

\* request.action of a logged request (the metadata probe sends fetchMedia)
ActionOf(req) == IF req.kind = "info.fetchMedia" THEN "fetchMedia" ELSE req.kind

\* C33 as stated: every request action that page-side code sends to the
\* background context is handled by the onMessage listener, which answers
\* the request.
C33_EveryActionHandled ==
  \A k \in 1..Len(log) :
    ActionOf(log[k]) \in SentActions => ActionOf(log[k]) \in BackgroundHandles


(***************************************************************************)
(* Properties of the Authorization header                                  *)
(***************************************************************************)
\* the logged HTTP requests (not the messages to the background context)
HttpKinds == {"fetch", "bg.fetch", "info.fetch", "signedFetch"}

\* a URL on oaiusercontent.com or googleusercontent.com
OnUserContentHost(url) == Includes(url, "oaiusercontent") \/ Includes(url, "googleusercontent")

\* C34 as stated: no request to a URL on a user-content storage host, and
\* no request to a redirect URL taken from a JSON response, carries the
\* Authorization header.
C34_NoTokenToStorageOrRedirect ==
  \A k \in 1..Len(log) :
    (log[k].kind \in HttpKinds /\ log[k].auth) =>
      /\ ~OnUserContentHost(log[k].url)
      /\ ~(log[k].ref = i /\ SeqIncludes(dm.jsonResponseUrls, log[k].url))


(***************************************************************************)
(* createAndDownloadZip on more items than one batch holds                 *)
(***************************************************************************)
\* the most media items of an archive
MaxMedia == 7

\* media item k of data.media: an image on the files CDN, every third one on
\* the static CDN
ItemNames == <<"m1", "m2", "m3", "m4", "m5", "m6", "m7", "m8", "m9", "m10">>

MediaItem(k) ==
  [url |-> IF k % 3 = 0 THEN StaticCdn("/file-", <<ItemNames[k]>>)
           ELSE FilesCdn("/file-", <<ItemNames[k]>>),
   filename |-> <<ItemNames[k], ".", "png">>,
   originalRef |-> RefUpload]

\* createAndDownloadZip is called with the data of a finished extraction;
\* the files CDN serves its items, the static CDN may be down
BatchInit ==
  /\ page = [hostname |-> "chatgpt.com", hasDownloads |-> TRUE, images |-> <<>>]
  /\ conversationData = ConvPlain
  /\ mediaReferences = <<>>
  /\ results = [total |-> 0, completed |-> 0, failed |-> 0, files |-> <<>>]
  /\ i = 0
  /\ pc = "export"
  /\ outcome = "running"
  /\ dm = DmIdle
  /\ result = NoResult
  /\ log = <<>>
  /\ env \in {[hosts |-> [h \in Hosts |-> IF h = "files" THEN "public"
                                        ELSE IF h = "static" THEN b ELSE "down"],
               accepts |-> TRUE] : b \in {"down", "public"}}
  /\ probe = ProbeIdle
  /\ ex \in {[ExIdle EXCEPT !.pc = "extract", !.session = "token", !.conversation = "data",
                            !.authToken = <<"tok">>,
                            !.media = [k \in 1..n |-> MediaItem(k)]] : n \in 0..MaxMedia}
  /\ authManager = AuthIdle

BatchNext ==
  \/ StartZip
  \/ ItemDirectFetch
  \/ ItemBackgroundFetch
  \/ ZipBatch
  \/ FinishZip

BatchSpec == BatchInit /\ [][BatchNext]_vars

\* the media items whose callback has started and has not ended
InFlight == {k \in 1..Len(ex.stage) : ex.stage[k] \in {"direct", "background"}}

\* the batch of media item k, counted from 0
BatchOf(k) == (k - 1) \div BATCH_SIZE

\* C35: at most BATCH_SIZE media items are being fetched at any moment, no
\* item of a later batch starts before every item of the batches before it
\* has settled, and an item that has settled is never fetched again.
C35_BatchesOfFive ==
  /\ [](/\ Cardinality(InFlight) <= BATCH_SIZE
        /\ \A a, b \in 1..Len(ex.stage) :
             (BatchOf(a) < BatchOf(b) /\ ex.stage[b] # "waiting") => ex.stage[a] = "settled")
  /\ [][\A k \in 1..Len(ex.stage) :
          /\ ex.stage[k] = "settled" => ex'.stage[k] = "settled"
          /\ ex.stage[k] = "background" => ex'.stage[k] \in {"background", "settled"}
          /\ (ex.stage[k] = "waiting" /\ ex'.stage[k] # "waiting") =>
               (ex'.stage[k] = "direct" /\ BatchOf(k) * BATCH_SIZE = ex'.batch)]_vars

\* an item of the second batch is being fetched after the first batch settled
C35_Witness ==
  /\ Len(ex.stage) > BATCH_SIZE
  /\ ex.stage[BATCH_SIZE + 1] \in {"direct", "background"}
  /\ \A k \in 1..BATCH_SIZE : ex.stage[k] = "settled"


(***************************************************************************)
(* Properties of the file saves of downloadAllMedia                        *)
(***************************************************************************)
\* the logged dispatches of a file save: chrome.downloads.download called by
\* the page or by the background context, and downloadBlobToPath
SaveKinds == {"chrome.downloads", "directDownload", "bg.download", "save"}

\* the accepted save dispatches logged for reference r
SuccessfulSaves(r) ==
  {k \in 1..Len(log) : log[k].ref = r /\ log[k].kind \in SaveKinds /\ log[k].ok}

\* C36 as stated: once the pass of the loop for a reference has ended, a
\* reference counted as completed had exactly one accepted file-save
\* dispatch and a reference counted as failed had none.
C36_OneSavePerCompleted ==
  pc \in {"loop", "done"} =>
    \A k \in 1..Len(results.files) :
      results.files[k].ref >= 1 =>
        Cardinality(SuccessfulSaves(results.files[k].ref))
          = (IF results.files[k].result.success THEN 1 ELSE 0)


(***************************************************************************)
(* Properties of the credential cache on a failed acquisition              *)
(***************************************************************************)
\* call c of getAccessToken ends in this step with the given outcome
Ends(c, stage) ==
  /\ c <= Len(authManager.calls)
  /\ authManager.calls[c].stage = "pending"
  /\ authManager'.calls[c].stage = stage

\* C37: a call of getAccessToken that throws leaves sessionCache.token and
\* sessionCache.expiry as they were, and the cache gets a token only in a
\* step in which an acquisition succeeds.
C37_FailureKeepsCache ==
  [][/\ (\E c \in 1..Len(authManager.calls) : Ends(c, "threw")) =>
          /\ authManager'.token = authManager.token
          /\ authManager'.expiry = authManager.expiry
     /\ ((authManager'.token # authManager.token \/ authManager'.expiry # authManager.expiry)
           /\ authManager'.token # NULL) =>
          \E c \in 1..Len(authManager.calls) : Ends(c, "returned")]_vars

\* a call threw while the cache held the token of an earlier acquisition
C37_Witness ==
  /\ authManager.token # NULL
  /\ \E c \in 1..Len(authManager.calls) : authManager.calls[c].stage = "threw"


(***************************************************************************)
(* Clicks on the export button                                             *)
(***************************************************************************)
\* the most clicks on the export button
MaxClicks == 3

\* no click yet; probe.exports holds, for every call of handleExportClick,
\* the await it stands at, probe.archives the archives handed to downloadBlob
ClickInit ==
  /\ probe = [stage |-> "button", exports |-> <<>>, archives |-> 0]
  /\ page = [hostname |-> "chatgpt.com", hasDownloads |-> TRUE, images |-> <<>>]
  /\ conversationData = ConvPlain
  /\ mediaReferences = <<>>
  /\ results = [total |-> 0, completed |-> 0, failed |-> 0, files |-> <<>>]
  /\ i = 0
  /\ pc = "click"
  /\ outcome = "running"
  /\ dm = DmIdle
  /\ result = NoResult
  /\ log = <<>>
  /\ env = [hosts |-> [h \in Hosts |-> "down"], accepts |-> FALSE]
  /\ ex = ExIdle
  /\ authManager = AuthIdle

clickIdle == <<page, conversationData, mediaReferences, results, i, pc, outcome, dm, result,
               log, env, ex, authManager>>

\* btn.onclick: handleExportClick runs up to its first await,
\* AuthManager.getAccessToken()
handleExportClick ==
  /\ Len(probe.exports) < MaxClicks
  /\ probe' = [probe EXCEPT !.exports = Append(@, "token")]
  /\ UNCHANGED clickIdle

\* getAccessToken settles: the call goes on to ChatGPTHandler.extract, or
\* the rejection is caught and reported
TokenSettles ==
  /\ \E k \in 1..Len(probe.exports), next \in {"extract", "failed"} :
       /\ probe.exports[k] = "token"
       /\ probe' = [probe EXCEPT !.exports[k] = next]
  /\ UNCHANGED clickIdle

\* extract settles: the call goes on to createAndDownloadZip, or the
\* rejection is caught and reported
ExtractSettles ==
  /\ \E k \in 1..Len(probe.exports), next \in {"zip", "failed"} :
       /\ probe.exports[k] = "extract"
       /\ probe' = [probe EXCEPT !.exports[k] = next]
  /\ UNCHANGED clickIdle

\* createAndDownloadZip resolves after handing its archive to downloadBlob
ZipSettles ==
  /\ \E k \in 1..Len(probe.exports) :
       /\ probe.exports[k] = "zip"
       /\ probe' = [probe EXCEPT !.exports[k] = "done", !.archives = @ + 1]
  /\ UNCHANGED clickIdle

ClickNext ==
  \/ handleExportClick
  \/ TokenSettles
  \/ ExtractSettles
  \/ ZipSettles

ClickSpec == ClickInit /\ [][ClickNext]_vars

\* the calls of handleExportClick that have not ended
RunningExports == {k \in 1..Len(probe.exports) : probe.exports[k] \in {"token", "extract", "zip"}}

\* C38 as stated: at most one export runs at a time; a click while
\* handleExportClick is still running starts no second extraction and no
\* second archive creation.
C38_OneExportAtATime == Cardinality(RunningExports) <= 1

====
